---- MODULE Spec2Model ----
(***************************************************************************)
(* Model of the PoUW CAPTCHA widget core: the challenge orchestrator       *)
(* (PoUWCaptcha), the session state machine (CaptchaSession), the          *)
(* inference dispatcher (MLEngine) and the widget surface (CaptchaWidget). *)
(*                                                                         *)
(* JavaScript runs one task at a time: every action below is one event     *)
(* loop task (a call from the host page, a network completion, a timer     *)
(* callback, a click) together with all the microtask continuations it     *)
(* triggers.  Time is in milliseconds and kept relative to the clock: a    *)
(* Session records the time left until its expiresAt, a timer the time     *)
(* left until it is due.                                                   *)
(***************************************************************************)
EXTENDS Integers, Naturals, Sequences, FiniteSets, TLC

\* ------------------------------------------------------------------ bounds
MaxCalls   == 2     \* execute() invocations made by the page or the retry button
MaxVerify  == 1     \* verification requests in flight at a time
MaxLayers  == 2     \* layers of a shard task
MaxResets  == 1     \* reset() invocations made by the page

\* ------------------------------------------------------- program constants
PollInterval    == 100      \* setInterval(..., 100)
FallbackTimeout == 60000    \* getTimeRemaining() || 60000

TimeStep == PollInterval \div 2
TTLs     == {PollInterval + TimeStep}

Calls == 1..MaxCalls
NULL  == 0

VARIABLES
  isExecuting,    \* PoUWCaptcha.isExecuting
  session,        \* PoUWCaptcha.session: NULL or the id of a Session object
  sessions,       \* the Session objects, by the execute() call that made them
  mlEngine,       \* MLEngine fields
  liveModels,     \* runtime objects <<call, runtime>> holding a loaded model
  widget,         \* CaptchaWidget fields
  calls,          \* one record per execute() invocation
  verifyInFlight, \* handleVerification calls awaiting submitVerification
  notifyLog,      \* what the state listener last observed
  resets,         \* number of reset() invocations so far
  runner,         \* one ShardInferenceEngine.executeShards run, on its own
  subject,        \* one CaptchaSession with its observers, on its own
  prover,         \* generateProof invocations, on their own
  tensorRun,      \* one executeShards run over tensors with shapes, on its own
  dispatcher,     \* one MLEngine with its runtime objects, on its own
  scorer,         \* one generatePrediction call, on its own
  pow,            \* one generatePoWHash call and a verifyPoWHash of its proof
  probing,        \* one MLEngine from its constructor on, with the loadModel calls made on it
  verification,   \* one Session under human verification, with the panel's submissions
  request,        \* one ApiClient.request call
  loader,         \* one ModelLoader with its IndexedDB store
  sharder         \* one shardModel call and a mergeShards of its shards

\* the orchestrator and what it drives
orchestrator == <<isExecuting, session, sessions, mlEngine, liveModels, widget,
                  calls, verifyInFlight, notifyLog, resets>>

vars == <<isExecuting, session, sessions, mlEngine, liveModels, widget, calls,
          verifyInFlight, notifyLog, resets, runner, subject,
          prover,
          tensorRun,
          dispatcher,
          scorer,
          pow,
          probing,
          verification,
          request,
          loader,
          sharder>>

\* ------------------------------------------------------------------ errors
\* cls "object" is a plain {code, message} object; the others are Error
\* instances.
NoError      == [cls |-> "null", code |-> "none", msg |-> "none"]
ApiError     == [cls |-> "ApiError", code |-> "none", msg |-> "HTTP error"]
TypeError    == [cls |-> "TypeError", code |-> "none", msg |-> "null session"]
ModelError   == [cls |-> "Error", code |-> "none", msg |-> "inference failed"]
NoRuntimeErr == [cls |-> "Error", code |-> "none", msg |-> "No ML runtime available"]
WrappedError == [cls |-> "Error", code |-> "none", msg |-> "[object Object]"]

createError(code, message) == [cls |-> "object", code |-> code, msg |-> message]

InstanceOfError(e) == e.cls \in {"ApiError", "TypeError", "Error"}

AlreadyExecuting == createError("VALIDATION_ERROR", "CAPTCHA is already executing")
InvalidResponse  == createError("VALIDATION_ERROR", "Invalid server response")
SessionDisposed  == createError("SESSION_EXPIRED", "Session was disposed")
SessionExpired   == createError("SESSION_EXPIRED", "Session expired")
VerifyTimeout    == createError("TIMEOUT_ERROR", "Verification timeout")
VerifyFailed     == createError("UNKNOWN_ERROR", "Verification failed")

\* ----------------------------------------------------------------- tokens
NullToken  == "null"         \* the field's initial value
Undefined  == "undefined"    \* a response that carries no captchaToken
Tokens     == {"tokS", "tokV"}

\* ---------------------------------------------------------- CaptchaSession
\* no Session object (not constructed yet, or garbage)
NoSession ==
  [state |-> "none", verificationData |-> FALSE, captchaToken |-> "null",
   error |-> [cls |-> "null", code |-> "none", msg |-> "none"],
   expiresIn |-> 0,
   listeners |-> FALSE, prediction |-> FALSE, proof |-> FALSE]

\* the task of a Session is immutable and read once, by execute(), to choose
\* the flow: it is an input of that step
NewSession(expiresIn) ==
  [state |-> "idle", verificationData |-> FALSE, captchaToken |-> NullToken,
   error |-> NoError, expiresIn |-> expiresIn,
   listeners |-> FALSE, prediction |-> FALSE, proof |-> FALSE]

\* new Date() >= this.expiresAt
isExpired(s)        == 0 >= s.expiresIn
isCompleted(s)      == s.state = "success" /\ s.captchaToken # NullToken
\* Math.max(0, this.expiresAt.getTime() - Date.now())
getTimeRemaining(s) == IF s.expiresIn > 0 THEN s.expiresIn ELSE 0
\* no task counts as a shard task
NeverShardTask(kind) == kind = "none"

\* 'shards' in this.task
isShardTask(kind)   == kind = "shard"

\* set state(newState): true when the listeners are notified
StateChanges(s, newState) == s.state # newState
SetState(s, newState)     == [s EXCEPT !.state = newState]

\* set error(value)
SetError(s, e) ==
  IF e # NoError THEN SetState([s EXCEPT !.error = e], "error")
  ELSE [s EXCEPT !.error = e]

\* ----------------------------------------------------------- CaptchaWidget
NewWidget == [currentState |-> "idle", verificationUI |-> FALSE, panel |-> "idle"]

WidgetSetState(w, st) ==
  IF w.currentState = st THEN w
  ELSE [w EXCEPT !.currentState = st,
                 !.panel = IF st \in {"idle", "loading", "processing"}
                           THEN st ELSE @]

showVerification(w) ==
  [w EXCEPT !.currentState = "verifying", !.verificationUI = TRUE,
            !.panel = "verification"]
showSuccess(w) ==
  [w EXCEPT !.currentState = "success", !.verificationUI = FALSE,
            !.panel = "success"]
showError(w) ==
  [w EXCEPT !.currentState = "error", !.verificationUI = FALSE,
            !.panel = "error"]
WidgetReset(w) ==
  [w EXCEPT !.currentState = "idle", !.verificationUI = FALSE,
            !.panel = "idle"]

\* ---------------------------------------------------------------- MLEngine
NewEngine(avail) ==
  [currentModel |-> <<>>, tfjsRuntime |-> NULL, onnxRuntime |-> NULL,
   layers |-> 0, availableRuntimes |-> avail]

EngineEmpty(e) ==
  /\ e.currentModel = <<>>
  /\ e.tfjsRuntime = NULL
  /\ e.onnxRuntime = NULL
  /\ e.layers = 0

\* MLEngine.dispose()
EngineDispose(e) ==
  [e EXCEPT !.layers = 0, !.currentModel = <<>>,
            !.tfjsRuntime = NULL, !.onnxRuntime = NULL]

\* the runtime objects whose dispose() the engine's dispose() reaches
DisposedBy(e) ==
  (IF e.currentModel = <<>> THEN {} ELSE {e.currentModel})
    \cup (IF e.tfjsRuntime = NULL THEN {} ELSE {<<e.tfjsRuntime, "tfjs">>})
    \cup (IF e.onnxRuntime = NULL THEN {} ELSE {<<e.onnxRuntime, "onnx">>})

Includes(seq, x) == \E i \in 1..Len(seq) : seq[i] = x

\* a ModelConfig as selectRuntime reads it: preferredRuntime ("none" when
\* absent) and whether url ends in '.onnx'
ModelConfigs == [preferredRuntime : {"none", "tfjs", "onnx"}, onnxUrl : BOOLEAN]

\* what loadClassicModel passes: no preferredRuntime; the model url is taken
\* not to end in '.onnx'
TaskModelConfig == [preferredRuntime |-> "none", onnxUrl |-> FALSE]

\* the url is looked at before the preference
SelectByUrlFirst(e, config) ==
  IF config.onnxUrl /\ Includes(e.availableRuntimes, "onnx") THEN "onnx"
  ELSE IF config.preferredRuntime # "none"
          /\ Includes(e.availableRuntimes, config.preferredRuntime)
       THEN config.preferredRuntime
  ELSE IF Includes(e.availableRuntimes, "tfjs") THEN "tfjs"
  ELSE IF Includes(e.availableRuntimes, "onnx") THEN "onnx"
  ELSE "none"

\* selectRuntime; "none" stands for the thrown 'No ML runtime available'
selectRuntime(e, config) ==
  IF config.preferredRuntime # "none"
     /\ Includes(e.availableRuntimes, config.preferredRuntime)
  THEN config.preferredRuntime
  ELSE IF config.onnxUrl /\ Includes(e.availableRuntimes, "onnx") THEN "onnx"
  ELSE IF Includes(e.availableRuntimes, "tfjs") THEN "tfjs"
  ELSE IF Includes(e.availableRuntimes, "onnx") THEN "onnx"
  ELSE "none"

\* the runtime just tried is tried again
SameRuntime(e, currentRuntime) ==
  IF Includes(e.availableRuntimes, currentRuntime) THEN currentRuntime ELSE "none"

getFallbackRuntime(e, currentRuntime) ==
  LET fallback == IF currentRuntime = "tfjs" THEN "onnx" ELSE "tfjs"
  IN  IF Includes(e.availableRuntimes, fallback) THEN fallback ELSE "none"

SetRuntime(e, rt, p) ==
  IF rt = "tfjs" THEN [e EXCEPT !.tfjsRuntime = p]
  ELSE [e EXCEPT !.onnxRuntime = p]


\* ------------------------------------------------------ validator responses
\* SubmitResponse as parsed from the wire: every optional field may be absent
SubmitResponses ==
  [requiresVerification : BOOLEAN, verification : BOOLEAN,
   captchaToken : {Undefined, "tokS"}]
NoResponse ==
  [requiresVerification |-> FALSE, verification |-> FALSE,
   captchaToken |-> NullToken]
VerifyTokens == {Undefined, "tokV"}

\* ------------------------------------------------------------ execute() calls
NewCall ==
  [pc |-> "idle", rt |-> "none",
   submitResponse |-> NoResponse,
   intervalOn |-> FALSE, nextTick |-> -1, timerDue |-> -1, deadline |-> -1,
   ticked |-> FALSE, result |-> NullToken, err |-> NoError,
   reports |-> 0, successes |-> 0, abandoned |-> FALSE,
   layerFailed |-> FALSE, submits |-> 0,
   task |-> "none", inits |-> 0, verificationPerformed |-> FALSE]

Settled(c)  == c.pc \in {"resolved", "rejected"}
Done(c)     == c.pc \in {"refused", "resolved", "rejected"}
InFlight(c) == c.pc \notin {"idle", "refused", "resolved", "rejected"}

\* ---------------------------------------------------- orchestrator helpers
\* The fields a continuation of PoUWCaptcha reads and writes, as one record.
World ==
  [isExecuting |-> isExecuting, session |-> session, sessions |-> sessions,
   mlEngine |-> mlEngine, liveModels |-> liveModels, widget |-> widget,
   calls |-> calls, notifyLog |-> notifyLog]

\* What is left of a call one step after it has ended: its outcome has been
\* delivered to the caller.  The local submitResponse is dead once the wait
\* has begun.
Forget(cs) ==
  [q \in Calls |->
     IF Done(calls[q])
     THEN [NewCall EXCEPT !.pc = cs[q].pc]
     ELSE IF calls[q].pc = "waiting" /\ cs[q].pc = "waiting"
     THEN [cs[q] EXCEPT !.submitResponse = NoResponse]
     ELSE cs[q]]

\* Every read and write of a Session goes through this.session: a Session
\* that this.session no longer names is never touched again.
Collect(ss, cur) ==
  [q \in Calls |-> IF q # cur THEN NoSession ELSE ss[q]]

Commit(W) ==
  /\ UNCHANGED <<runner, subject, prover, tensorRun, dispatcher, scorer, pow, probing, verification, request, loader, sharder>>
  /\ isExecuting' = W.isExecuting
  /\ session' = W.session
  /\ sessions' = Collect(W.sessions, W.session)
  /\ mlEngine' = W.mlEngine
  /\ liveModels' = W.liveModels
  /\ widget' = W.widget
  /\ calls' = Forget(W.calls)
  /\ notifyLog' = W.notifyLog

\* notifyStateChange: the listener registered by execute() forwards the new
\* state to widget.setState; a disposed session has no listeners
Notify(W, sid) ==
  LET s == W.sessions[sid]
  IN  IF s.listeners
      THEN [W EXCEPT !.widget = WidgetSetState(@, s.state),
                     !.notifyLog = [state |-> s.state,
                                    vdata |-> s.verificationData]]
      ELSE W

\* this.session.state = newState
AssignState(W, newState) ==
  LET sid == W.session
      chg == StateChanges(W.sessions[sid], newState)
      W1  == [W EXCEPT !.sessions[sid] = SetState(@, newState)]
  IN  IF chg THEN Notify(W1, sid) ELSE W1

\* this.session.error = e
AssignError(W, e) ==
  LET sid == W.session
      chg == e # NoError /\ StateChanges(W.sessions[sid], "error")
      W1  == [W EXCEPT !.sessions[sid] = SetError(@, e)]
  IN  IF chg THEN Notify(W1, sid) ELSE W1

\* invokeCallback('onError', ...): one more error report for the challenges
\* of the calls in who
Reported(cs, who) ==
  [q \in Calls |-> IF q \in who THEN [cs[q] EXCEPT !.reports = @ + 1]
                   ELSE cs[q]]

\* invokeCallback('onSuccess', token)
Succeeded(cs, who) ==
  [q \in Calls |-> IF q \in who THEN [cs[q] EXCEPT !.successes = @ + 1]
                   ELSE cs[q]]

\* the challenge a verification response is about: the pending execute()
\* call that constructed the Session this.session names
Owner(W) == {q \in Calls : q = W.session /\ InFlight(W.calls[q])}

\* PoUWCaptcha.handleError
handleError(W, e, who) ==
  LET W1 == IF W.session # NULL
            THEN AssignError(W, IF InstanceOfError(e) THEN e ELSE WrappedError)
            ELSE W
  IN  [W1 EXCEPT !.widget = showError(@), !.calls = Reported(@, who)]

\* this.mlEngine.dispose()
DisposeEngine(W) ==
  [W EXCEPT !.liveModels = @ \ DisposedBy(W.mlEngine),
            !.mlEngine = EngineDispose(@)]

\* the finally block of execute()
Finally(W) == DisposeEngine([W EXCEPT !.isExecuting = FALSE])

\* the locals of an ended call are gone; its timeout, never cleared, is
\* inert: it would clear a cleared interval and reject a settled promise
Settle(c, pc, e, token, performed) ==
  [NewCall EXCEPT !.pc = pc, !.err = e,
                  !.result = token,
                  !.verificationPerformed = performed,
                  !.deadline = c.deadline,
                  !.reports = c.reports, !.successes = c.successes,
                  !.abandoned = c.abandoned,
                  !.layerFailed = c.layerFailed, !.submits = c.submits,
                  !.inits = c.inits,
                  !.submitResponse = c.submitResponse]

\* execute() leaves through catch + finally with error e
Rejects(p, W, e) ==
  LET W1 == Finally(handleError(W, e, {p}))
  IN  Commit([W1 EXCEPT !.calls[p] = Settle(@, "rejected", e, NullToken, FALSE)])

\* createResult(token, expiresAt, verificationPerformed)
createResult(token, verificationPerformed) ==
  [token |-> token, verificationPerformed |-> verificationPerformed]

\* execute() returns a result and leaves through finally
Resolves(p, W, result) ==
  LET W1 == Finally(W)
  IN  Commit([W1 EXCEPT !.calls[p] =
                Settle(@, "resolved", NoError, result.token,
                       result.verificationPerformed)])

\* new PoUWCaptcha(config)
Constructed ==
  /\ isExecuting = FALSE
  /\ session = NULL
  /\ sessions = [p \in Calls |-> NoSession]
  /\ mlEngine = NewEngine(<<"tfjs", "onnx">>)
  /\ liveModels = {}
  /\ widget = NewWidget
  /\ calls = [p \in Calls |-> NewCall]
  /\ verifyInFlight = 0
  /\ notifyLog = [state |-> "idle", vdata |-> FALSE]
  /\ resets = 0

\* no shard run and no Session under observation on their own
NoRun     == [phase |-> "none"]
NoSubject == [state |-> "none"]
NoSharder == [phase |-> "none"]
NoLoader == [phase |-> "none"]
NoRequest == [phase |-> "none"]
NoVerification == [phase |-> "none"]
NoProbing == [phase |-> "none"]
NoPow == [phase |-> "none"]
NoScorer == [phase |-> "none"]
NoDispatcher == [phase |-> "none"]
NoTensorRun == [phase |-> "none"]
NoProver == [phase |-> "none"]

Init ==
  /\ Constructed
  /\ sharder = NoSharder
  /\ loader = NoLoader
  /\ request = NoRequest
  /\ verification = NoVerification
  /\ probing = NoProbing
  /\ pow = NoPow
  /\ scorer = NoScorer
  /\ dispatcher = NoDispatcher
  /\ tensorRun = NoTensorRun
  /\ prover = NoProver
  /\ runner = NoRun
  /\ subject = NoSubject

Rest == <<verifyInFlight, resets>>

\* ----------------------------------------------------------------- execute
\* lines 77-96: the guard, then everything up to the await of initSession
Start(p) ==
  /\ calls[p].pc = "idle"
  /\ \A q \in Calls : q < p => calls[q].pc # "idle"
  /\ IF isExecuting
     THEN Commit([World EXCEPT !.calls[p].pc = "refused",
                               !.calls[p].err = AlreadyExecuting])
     ELSE Commit([World EXCEPT !.isExecuting = TRUE,
                               !.widget = WidgetSetState(@, "loading"),
                               !.calls[p].pc = "awaitInit",
                               !.calls[p].inits = @ + 1])
  /\ UNCHANGED Rest

\* the host page calls captcha.execute()
Execute(p) == Start(p)

\* the retry button of the error panel: onRetry: () => this.execute()
Retry(p) == widget.panel = "error" /\ Start(p)

\* MLEngine.loadModel up to its first await: selectRuntime, new runtime object
BeginLoad(p, W) ==
  LET rt == selectRuntime(W.mlEngine, TaskModelConfig)
  IN  IF rt = "none"
      THEN Rejects(p, W, NoRuntimeErr)
      ELSE Commit([W EXCEPT !.mlEngine = SetRuntime(@, rt, p),
                            !.calls[p].pc = "awaitLoad",
                            !.calls[p].rt = rt])

\* a shard runner that skips a layer whose forward pass throws
SkipFailedLayer(p, W, n, failAt) ==
  Commit([W EXCEPT !.widget = WidgetSetState(@, "processing"),
                   !.mlEngine.layers = n,
                   !.calls[p].layerFailed = failAt > 0,
                   !.calls[p].pc = "awaitProof"])

\* executeShardTaskFlow up to its first await: ShardInferenceEngine.executeShards
\* loads n layers and runs them; failAt = 0 when every forward pass succeeds
BeginShards(p, W, n, failAt) ==
  LET W1 == [W EXCEPT !.widget = WidgetSetState(@, "processing"),
                      !.mlEngine.layers = n]
  IN  IF failAt > 0
      THEN Rejects(p, [W1 EXCEPT !.calls[p].layerFailed = TRUE], ModelError)
      ELSE Commit([W1 EXCEPT !.calls[p].pc = "awaitProof"])

\* lines 96-120: initSession settles; on success the Session is constructed
\* and the task flow runs up to its first await
InitDone(p, ok, kind, ttl, n, failAt) ==
  /\ calls[p].pc = "awaitInit"
  /\ IF ~ok
     THEN Rejects(p, World, ApiError)
     ELSE LET new == [NewSession(ttl) EXCEPT !.listeners = TRUE]
              W1  == [World EXCEPT !.sessions[p] = new, !.session = p,
                                   !.calls[p].task = kind]
          IN  IF isShardTask(kind)
              THEN BeginShards(p, W1, n, failAt)
              ELSE BeginLoad(p, W1)
  /\ UNCHANGED Rest

\* the model is installed; executeLegacyTaskFlow goes on to model.predict
Loaded(p, W) ==
  LET m == <<p, calls[p].rt>>
  IN  Commit([W EXCEPT !.mlEngine.currentModel = m,
                       !.liveModels = @ \cup {m},
                       !.widget = WidgetSetState(@, "processing"),
                       !.calls[p].pc = "awaitPredict",
                       !.calls[p].rt = "none"])

\* MLEngine.loadModel: the selected runtime's loadModel settles
LoadDone(p, ok) ==
  /\ calls[p].pc = "awaitLoad"
  /\ IF ok
     THEN Loaded(p, World)
     ELSE LET fb == getFallbackRuntime(mlEngine, calls[p].rt)
          IN  IF fb = "none"
              THEN Rejects(p, World, ModelError)
              ELSE Commit([World EXCEPT !.mlEngine = SetRuntime(@, fb, p),
                                        !.calls[p].pc = "awaitFallback",
                                        !.calls[p].rt = fb])
  /\ UNCHANGED Rest

\* MLEngine.loadModelWithRuntime: the fallback runtime's loadModel settles
FallbackDone(p, ok) ==
  /\ calls[p].pc = "awaitFallback"
  /\ IF ok THEN Loaded(p, World) ELSE Rejects(p, World, ModelError)
  /\ UNCHANGED Rest

\* the submission request goes out twice
SubmitTwice(W, p) ==
  [W EXCEPT !.calls[p].pc = "awaitSubmit", !.calls[p].submits = @ + 2,
            !.calls[p].task = "none"]

\* ApiClient.submitPrediction up to its await: the request is on the wire
\* and the task has been executed
submitPrediction(W, p) ==
  [W EXCEPT !.calls[p].pc = "awaitSubmit", !.calls[p].submits = @ + 1,
            !.calls[p].task = "none"]

\* apiClient.submitInferenceProof, the validator's submitProof operation:
\* same request and response shapes as submitPrediction
submitInferenceProof(W, p) ==
  [W EXCEPT !.calls[p].pc = "awaitSubmit", !.calls[p].submits = @ + 1,
            !.calls[p].task = "none"]

\* lines 270-287: prepareInput and model.predict settle; the prediction is
\* stored on this.session and the proof-of-work search begins
PredictDone(p, ok) ==
  /\ calls[p].pc = "awaitPredict"
  /\ IF ~ok THEN Rejects(p, World, ModelError)
     ELSE IF session = NULL THEN Rejects(p, World, TypeError)
     ELSE Commit([World EXCEPT !.sessions[session].prediction = TRUE,
                               !.calls[p].pc = "awaitPow"])
  /\ UNCHANGED Rest

\* lines 287-309: generatePoWHash settles; the proof of work is stored on
\* this.session and the prediction submitted
PowDone(p) ==
  /\ calls[p].pc = "awaitPow"
  /\ IF session = NULL THEN Rejects(p, World, TypeError)
     ELSE Commit(submitPrediction(
                   [World EXCEPT !.sessions[session].proof = TRUE], p))
  /\ UNCHANGED Rest

\* lines 203-237: executeShardTask resolves; prediction and proof are stored
\* on this.session and the proof submitted
ProofDone(p) ==
  /\ calls[p].pc = "awaitProof"
  /\ IF session = NULL THEN Rejects(p, World, TypeError)
     ELSE Commit(submitInferenceProof(
                   [World EXCEPT !.sessions[session].prediction = TRUE,
                                 !.sessions[session].proof = TRUE], p))
  /\ UNCHANGED Rest

\* a branch condition that looks at the requiresVerification flag alone
FlagAlone(r) == r.requiresVerification

\* line 123: submitResponse.requiresVerification && submitResponse.verification
NeedsVerification(r) == r.requiresVerification /\ r.verification

\* line 131: submitResponse.captchaToken (truthy)
HasToken(r) == r.captchaToken \notin {Undefined, NullToken}

\* lines 125-126: the payload is stored, then the state is assigned
EnterVerifying(W, resp) ==
  AssignState([W EXCEPT
                 !.sessions[W.session].verificationData = resp.verification],
              "verifying")

\* the delay handed to setTimeout: this.session?.getTimeRemaining() || 60000
TimeoutDelay(remaining) ==
  IF remaining = 0 THEN FallbackTimeout ELSE remaining

\* waitForVerification: the interval and the timeout are armed
BeginWait(p, W) ==
  LET r == IF W.session = NULL THEN 0
           ELSE getTimeRemaining(W.sessions[W.session])
  IN  Commit([W EXCEPT !.calls[p].pc = "waiting",
                       !.calls[p].intervalOn = TRUE,
                       !.calls[p].ticked = FALSE,
                       !.calls[p].nextTick = PollInterval,
                       !.calls[p].timerDue = TimeoutDelay(r),
                       !.calls[p].deadline = r])

\* lines 133-135 / 419-421: the token is stored, the state assigned, the
\* success panel shown; then invokeCallback('onSuccess', token)
IssueToken(W, tok, who) ==
  LET W1 == [W EXCEPT !.sessions[W.session].captchaToken = tok]
  IN  [AssignState(W1, "success") EXCEPT !.widget = showSuccess(@),
                                         !.calls = Succeeded(@, who)]

\* lines 122-147: the submit request settles and the response is handled
SubmitDone(p, ok, resp) ==
  /\ calls[p].pc = "awaitSubmit"
  /\ LET W == [World EXCEPT !.calls[p].submitResponse = resp]
     IN  IF ~ok THEN Rejects(p, World, ApiError)
         ELSE IF NeedsVerification(resp)
         THEN IF session = NULL
              THEN Rejects(p, W, TypeError)
              ELSE BeginWait(p, [EnterVerifying(W, resp) EXCEPT
                                   !.widget = showVerification(@)])
         ELSE IF HasToken(resp)
         THEN IF session = NULL
              THEN Rejects(p, W, TypeError)
              ELSE Resolves(p, IssueToken(W, resp.captchaToken, {p}),
                            createResult(resp.captchaToken, FALSE))
         ELSE Rejects(p, W, InvalidResponse)
  /\ UNCHANGED Rest

\* the interval callback and the timeout callback are both due: the
\* interval was armed first, so its first run precedes a timeout that is
\* due at the same instant or later
IntervalFirst(c) ==
  c.intervalOn /\ ~c.ticked /\ c.nextTick <= 0 /\ c.nextTick <= c.timerDue

\* lines 434-464: one run of the setInterval callback, and execute()'s
\* continuation when the callback settles the promise
PollTick(p) ==
  /\ calls[p].intervalOn
  /\ calls[p].nextTick <= 0
  /\ IF session = NULL
     THEN Rejects(p, World, SessionDisposed)
     ELSE LET s == sessions[session]
          IN  IF isCompleted(s)
              THEN Resolves(p, World, createResult(s.captchaToken, TRUE))
              ELSE IF s.state = "error"
              THEN Rejects(p, World,
                           IF s.error # NoError THEN s.error ELSE VerifyFailed)
              ELSE IF isExpired(s)
              THEN Rejects(p, World, SessionExpired)
              ELSE Commit([World EXCEPT
                             !.calls[p].nextTick = PollInterval,
                             !.calls[p].ticked = TRUE])
  /\ UNCHANGED Rest

\* lines 467-472: the setTimeout callback; it clears the interval and
\* rejects unless the session is completed
TimerFire(p) ==
  /\ calls[p].timerDue = 0
  /\ ~IntervalFirst(calls[p])
  /\ LET W == [World EXCEPT !.calls[p].timerDue = -1,
                            !.calls[p].intervalOn = FALSE]
     IN  IF /\ calls[p].pc = "waiting"
            /\ ~(session # NULL /\ isCompleted(sessions[session]))
         THEN Rejects(p, W, VerifyTimeout)
         ELSE Commit(W)
  /\ UNCHANGED Rest

\* PoUWCaptcha.reset()
Reset ==
  LET W1 == IF session # NULL
            THEN [World EXCEPT !.sessions[session].listeners = FALSE]
            ELSE World
      W2 == [W1 EXCEPT !.session = NULL, !.isExecuting = FALSE]
      W3 == [DisposeEngine(W2) EXCEPT !.widget = WidgetReset(@)]
  IN  /\ resets < MaxResets
      /\ session # NULL \/ \E q \in Calls : InFlight(calls[q])
      /\ resets' = resets + 1
      /\ Commit([W3 EXCEPT !.calls =
                   [q \in Calls |->
                      IF InFlight(calls[q])
                      THEN [calls[q] EXCEPT !.abandoned = TRUE]
                      ELSE calls[q]]])
      /\ UNCHANGED verifyInFlight

\* a click on a button of the verification panel: VerificationUI.handleConfirm
\* / handleCorrection call onSubmit, i.e. handleVerification up to its await
VerificationSubmit ==
  /\ widget.panel = "verification"
  /\ widget.verificationUI
  /\ verifyInFlight < MaxVerify
  /\ IF session = NULL \/ ~sessions[session].verificationData
     THEN UNCHANGED verifyInFlight
     ELSE verifyInFlight' = verifyInFlight + 1
  /\ Commit(World)
  /\ UNCHANGED resets

\* lines 412-426: submitVerification settles
VerifyDone(ok, tok) ==
  /\ verifyInFlight > 0
  /\ verifyInFlight' = verifyInFlight - 1
  /\ IF ok /\ session # NULL
     THEN Commit(IssueToken(World, tok, Owner(World)))
     ELSE Commit(handleError(World, IF ok THEN TypeError ELSE ApiError,
                             Owner(World)))
  /\ UNCHANGED resets

\* the longest life of a Session; a timeout armed for a longer delay is not
\* followed to its expiry
Horizon == PollInterval + TimeStep

\* the clock is read when the wait begins and by the timers: the latency
\* of the earlier steps of a challenge is counted into that of its submit
\* request
ClockObserved ==
  \/ \E p \in Calls : calls[p].intervalOn \/ calls[p].timerDue \in 0..Horizon
  \/ /\ session # NULL
     /\ ~isExpired(sessions[session])
     /\ \E p \in Calls : calls[p].pc = "awaitSubmit"

Elapse(t) == IF t >= TimeStep THEN t - TimeStep ELSE 0

\* time passes; a timer that is due runs before the clock moves on
Tick ==
  /\ ClockObserved
  /\ \A p \in Calls :
       /\ calls[p].intervalOn => calls[p].nextTick > 0
       /\ calls[p].timerDue # 0
  /\ Commit([World EXCEPT
       !.sessions = [q \in Calls |->
                       [sessions[q] EXCEPT !.expiresIn = Elapse(@)]],
       !.calls = [q \in Calls |->
                    [calls[q] EXCEPT
                       !.nextTick = IF calls[q].intervalOn THEN Elapse(@) ELSE @,
                       !.timerDue = IF @ \in 1..Horizon THEN Elapse(@) ELSE @,
                       !.deadline = IF calls[q].pc = "waiting"
                                    THEN @ - TimeStep ELSE @]]])
  /\ UNCHANGED <<verifyInFlight, resets>>

Next ==
  \/ \E p \in Calls : Execute(p)
  \/ \E p \in Calls : Retry(p)
  \/ \E p \in Calls, ok \in BOOLEAN, kind \in {"shard", "legacy"},
        ttl \in TTLs, n \in 1..MaxLayers, failAt \in 0..MaxLayers :
       /\ failAt <= n
       /\ (kind = "legacy" \/ ~ok) => (n = 1 /\ failAt = 0)
       /\ ~ok => kind = "legacy"
       /\ InitDone(p, ok, kind, ttl, n, failAt)
  \/ \E p \in Calls, ok \in BOOLEAN : LoadDone(p, ok)
  \/ \E p \in Calls, ok \in BOOLEAN : FallbackDone(p, ok)
  \/ \E p \in Calls, ok \in BOOLEAN : PredictDone(p, ok)
  \/ \E p \in Calls : PowDone(p)
  \/ \E p \in Calls : ProofDone(p)
  \/ \E p \in Calls, ok \in BOOLEAN, resp \in SubmitResponses :
       /\ ~ok => resp = [requiresVerification |-> FALSE,
                         verification |-> FALSE, captchaToken |-> Undefined]
       /\ SubmitDone(p, ok, resp)
  \/ \E p \in Calls : PollTick(p)
  \/ \E p \in Calls : TimerFire(p)
  \/ Reset
  \/ VerificationSubmit
  \/ \E ok \in BOOLEAN, tok \in VerifyTokens :
       (~ok => tok = Undefined) /\ VerifyDone(ok, tok)
  \/ Tick

Spec == Init /\ [][Next]_vars

\* ============================================================ Shard Runner
\* ShardInferenceEngine on its own: one executeShards run over a ShardTask,
\* called directly or through PoUWCaptcha.executeShardTaskFlow.  A tensor is
\* abstracted to a residue, a layer to the map its forward pass computes.
MaxShards == 2      \* shards of a ShardTask
MaxTime   == 2      \* distinct clock readings

Residues == 0..2

\* readings of Date.now()
Times == 1..MaxTime

\* layer.type; any other type makes forward() throw
LayerTypes == {"conv2d", "dense", "flatten", "unsupported"}

\* NeuralLayer.forward: the output tensor, or the Error it throws
forward(type, input) ==
  CASE type = "conv2d"  -> [threw |-> FALSE, value |-> (input + 1) % 3]
    [] type = "dense"   -> [threw |-> FALSE, value |-> (2 * input + 1) % 3]
    [] type = "flatten" -> [threw |-> FALSE, value |-> input]
    [] OTHER            -> [threw |-> TRUE, value |-> input]

\* hashData / hashTensor: a SHA-256 digest, collision free
hashData(x)   == <<"sha256", x>>
hashTensor(t) == hashData(t)

\* the layer lists a shard can carry
RECURSIVE SeqsUpTo(_, _)
SeqsUpTo(S, n) ==
  IF n = 0 THEN {<<>>}
  ELSE LET shorter == SeqsUpTo(S, n - 1)
       IN  shorter \cup {Append(q, x) : q \in shorter, x \in S}

\* task.shards: shards with distinct indices 0..k-1, in any array order
ShardLists ==
  UNION {
    {[i \in 1..k |-> [index |-> idx[i], layers |-> ls[i]]] :
       idx \in {f \in [1..k -> 0..(k - 1)] :
                  \A a, b \in 1..k : a # b => f[a] # f[b]},
       ls \in [1..k -> SeqsUpTo(LayerTypes, MaxLayers)]} :
    k \in 1..MaxShards}

\* ShardInferenceEngine.loadShards: the layers of the shards, in array order
RECURSIVE loadShards(_)
loadShards(shards) ==
  IF shards = <<>> THEN <<>>
  ELSE Head(shards).layers \o loadShards(Tail(shards))

\* [...shards].sort((a, b) => a.index - b.index)
RECURSIVE SortByIndex(_)
SortByIndex(shards) ==
  IF shards = <<>> THEN <<>>
  ELSE LET least == CHOOSE i \in 1..Len(shards) :
                      \A j \in 1..Len(shards) :
                        \/ shards[i].index < shards[j].index
                        \/ (shards[i].index = shards[j].index /\ i <= j)
           others == [j \in 1..(Len(shards) - 1) |->
                        IF j < least THEN shards[j] ELSE shards[j + 1]]
       IN  <<shards[least]>> \o SortByIndex(others)

\* mergeShards: the layers of the shards, sorted by shard index
mergeShards(shards) == loadShards(SortByIndex(shards))

\* the fraction of layers done before layer i (0-based) of n
ProgressBefore(i, n) == <<i, n>>

\* the value reported after layer i (0-based) of n: (i + 1) / n, as a
\* fraction <<numerator, denominator>>
ProgressValue(i, n) == <<i + 1, n>>

\* the loop of executeShards from layer i (1-based) on: every output is
\* collected, progress reported after each layer when task.onProgress is set
RECURSIVE RunLayers(_, _, _)
RunLayers(layers, i, r) ==
  IF i > Len(layers) THEN r
  ELSE LET out == forward(layers[i], r.currentOutput)
       IN  IF out.threw THEN [r EXCEPT !.failed = TRUE]
           ELSE RunLayers(layers, i + 1,
                  [r EXCEPT
                     !.currentOutput = out.value,
                     !.layerOutputs = Append(@, out.value),
                     !.progress =
                       IF r.onProgress = "none" THEN @
                       ELSE Append(@, [value |-> ProgressValue(i - 1, Len(layers)),
                                       layersDone |-> Len(r.layerOutputs) + 1])])

\* generatePrediction on a residue: the class the final output selects
PredictedClass(output) == [label |-> output]

\* JSON.stringify
stringify(x) == <<"json", x>>

\* a proof that counts the layers the task announced
ProofOfExpected(taskId, sampleId, expectedLayers, layerOutputs, prediction, now) ==
  LET outputHashes == [i \in 1..Len(layerOutputs) |-> hashTensor(layerOutputs[i])]
  IN  [taskId         |-> taskId,
       sampleId       |-> sampleId,
       layerCount     |-> expectedLayers,
       outputHashes   |-> outputHashes,
       predictionHash |-> hashData(stringify(prediction)),
       proofHash      |-> hashData(<<taskId, sampleId, expectedLayers,
                                     outputHashes, stringify(prediction)>>),
       timestamp      |-> now]

\* a proof whose hash covers the time it was made at
ProofOverTime(taskId, sampleId, expectedLayers, layerOutputs, prediction, now) ==
  LET outputHashes == [i \in 1..Len(layerOutputs) |-> hashTensor(layerOutputs[i])]
  IN  [taskId         |-> taskId,
       sampleId       |-> sampleId,
       layerCount     |-> Len(layerOutputs),
       outputHashes   |-> outputHashes,
       predictionHash |-> hashData(stringify(prediction)),
       proofHash      |-> hashData(<<taskId, sampleId, expectedLayers,
                                     outputHashes, stringify(prediction), now>>),
       timestamp      |-> now]

\* generateProof at Date.now() = now: one hash per layer output, layerCount
\* the number of outputs, proofHash over the ':'-joined task id, sample id,
\* expectedLayers, output hashes and stringified prediction
generateProof(taskId, sampleId, expectedLayers, layerOutputs, prediction, now) ==
  LET outputHashes == [i \in 1..Len(layerOutputs) |-> hashTensor(layerOutputs[i])]
  IN  [taskId         |-> taskId,
       sampleId       |-> sampleId,
       layerCount     |-> Len(layerOutputs),
       outputHashes   |-> outputHashes,
       predictionHash |-> hashData(stringify(prediction)),
       proofHash      |-> hashData(<<taskId, sampleId, expectedLayers,
                                     outputHashes, stringify(prediction)>>),
       timestamp      |-> now]

\* a ShardTask as handed to the engine
RunnerTasks ==
  [shards : ShardLists, inputData : Residues,
   expectedLayers : 0..MaxLayers, onProgress : {"none", "own"}]

NewRun(task) ==
  [phase |-> "ready", task |-> task, given |-> task.onProgress,
   via |-> "none", layers |-> <<>>,
   layerOutputs |-> <<>>, progress |-> <<>>, own |-> <<>>, widget |-> <<>>,
   prediction |-> "none", proof |-> "none"]

RunnerInit ==
  /\ Constructed
  /\ sharder = NoSharder
  /\ loader = NoLoader
  /\ request = NoRequest
  /\ verification = NoVerification
  /\ probing = NoProbing
  /\ pow = NoPow
  /\ scorer = NoScorer
  /\ dispatcher = NoDispatcher
  /\ tensorRun = NoTensorRun
  /\ prover = NoProver
  /\ subject = NoSubject
  /\ runner \in {NewRun(t) : t \in RunnerTasks}

\* executeShards up to the await of generateProof; the updates go to the
\* callback task.onProgress names when the loop runs
executeShards(run, task) ==
  LET layers == loadShards(task.shards)
      r == RunLayers(layers, 1,
             [currentOutput |-> task.inputData, layerOutputs |-> <<>>,
              progress |-> <<>>, onProgress |-> task.onProgress,
              failed |-> FALSE])
      values == [i \in 1..Len(r.progress) |-> r.progress[i].value]
  IN  [run EXCEPT
         !.task = task,
         !.layers = layers,
         !.layerOutputs = r.layerOutputs,
         !.progress = r.progress,
         !.own = IF task.onProgress = "own" THEN values ELSE <<>>,
         !.widget = IF task.onProgress = "widget" THEN values ELSE <<>>,
         !.prediction = IF r.failed THEN "none"
                        ELSE PredictedClass(r.currentOutput),
         !.phase = IF r.failed THEN "failed" ELSE "proving"]

\* shardEngine.executeShards(task), the task as it came
ExecuteDirect ==
  /\ runner.phase = "ready"
  /\ runner' = executeShards([runner EXCEPT !.via = "direct"], runner.task)
  /\ UNCHANGED <<orchestrator, subject, prover, tensorRun, dispatcher, scorer, pow, probing, verification, request, loader, sharder>>

\* executeShardTaskFlow lines 192-203: shardTask.onProgress is assigned the
\* widget's progress callback, then mlEngine.executeShardTask(shardTask)
ExecuteInFlow ==
  /\ runner.phase = "ready"
  /\ runner' = executeShards([runner EXCEPT !.via = "execute"],
                             [runner.task EXCEPT !.onProgress = "widget"])
  /\ UNCHANGED <<orchestrator, subject, prover, tensorRun, dispatcher, scorer, pow, probing, verification, request, loader, sharder>>

\* generateProof settles and executeShards returns its result
ProofGenerated ==
  /\ runner.phase = "proving"
  /\ \E now \in Times :
     runner' = [runner EXCEPT
                  !.phase = "done",
                  !.proof = generateProof("task", "sample",
                                          runner.task.expectedLayers,
                                          runner.layerOutputs,
                                          runner.prediction, now)]
  /\ UNCHANGED <<orchestrator, subject, prover, tensorRun, dispatcher, scorer, pow, probing, verification, request, loader, sharder>>

RunnerNext == ExecuteDirect \/ ExecuteInFlow \/ ProofGenerated

SpecRunner == RunnerInit /\ [][RunnerNext]_vars

\* ======================================================= Session observers
\* One CaptchaSession and the callbacks registered with onStateChange.  The
\* class is exported and handed out by getSession(), so a callback is any
\* function of the state: one that returns, one that throws, or one that
\* assigns session.state itself (here: marks the session failed).
MaxObservers == 2   \* distinct callbacks

Observers    == 1..MaxObservers
WidgetStates == {"idle", "loading", "processing", "verifying", "success", "error"}
Behaviours   == {"returns", "throws", "sets"}

\* new CaptchaSession(...): state idle, no listener.  stateListeners is a
\* Set, iterated in insertion order: a sequence without repetition
NewSubject(behaviour) ==
  [state |-> "idle", listeners |-> <<>>, behaviour |-> behaviour,
   before |-> "none", assigned |-> "none", registered |-> <<>>,
   changes |-> <<>>, log |-> <<>>, caught |-> 0]

\* onStateChange(callback): Set.add
onStateChange(S, o) ==
  IF \E i \in 1..Len(S.listeners) : S.listeners[i] = o THEN S
  ELSE [S EXCEPT !.listeners = Append(@, o)]

\* the function onStateChange returned: Set.delete
unsubscribe(S, o) ==
  [S EXCEPT !.listeners = SelectSeq(@, LAMBDA x : x # o)]

\* notifyStateChange from the i-th listener on, and the state setter: each
\* listener is called with this._state as it is at the time of the call; what
\* it throws is caught and logged
RECURSIVE notifyStateChange(_, _)
RECURSIVE setState(_, _)
notifyStateChange(S, i) ==
  IF i > Len(S.listeners) THEN S
  ELSE LET o  == S.listeners[i]
           S1 == [S EXCEPT !.log = Append(@, <<o, S.state>>)]
           S2 == CASE S.behaviour[o] = "throws" -> [S1 EXCEPT !.caught = @ + 1]
                   [] S.behaviour[o] = "sets"   -> setState(S1, "error")
                   [] OTHER                     -> S1
       IN  notifyStateChange(S2, i + 1)

setState(S, newState) ==
  IF S.state # newState
  THEN notifyStateChange([S EXCEPT !.state = newState,
                                   !.changes = Append(@, newState)], 1)
  ELSE S

ObserversInit ==
  /\ Constructed
  /\ sharder = NoSharder
  /\ loader = NoLoader
  /\ request = NoRequest
  /\ verification = NoVerification
  /\ probing = NoProbing
  /\ pow = NoPow
  /\ scorer = NoScorer
  /\ dispatcher = NoDispatcher
  /\ tensorRun = NoTensorRun
  /\ prover = NoProver
  /\ runner = NoRun
  /\ subject \in {NewSubject(b) : b \in [Observers -> Behaviours]}

Subscribe(o) ==
  /\ subject' = onStateChange(subject, o)
  /\ UNCHANGED <<orchestrator, runner, prover, tensorRun, dispatcher, scorer, pow, probing, verification, request, loader, sharder>>

Unsubscribe(o) ==
  /\ subject' = unsubscribe(subject, o)
  /\ UNCHANGED <<orchestrator, runner, prover, tensorRun, dispatcher, scorer, pow, probing, verification, request, loader, sharder>>

\* session.state = newState, by code that is not itself a listener
AssignSubjectState(newState) ==
  /\ subject' = setState([subject EXCEPT !.before = subject.state,
                                         !.assigned = newState,
                                         !.registered = subject.listeners,
                                         !.changes = <<>>,
                                         !.log = <<>>,
                                         !.caught = 0],
                         newState)
  /\ UNCHANGED <<orchestrator, runner, prover, tensorRun, dispatcher, scorer, pow, probing, verification, request, loader, sharder>>

\* session.dispose()
DisposeSubject ==
  /\ subject' = [subject EXCEPT !.listeners = <<>>]
  /\ UNCHANGED <<orchestrator, runner, prover, tensorRun, dispatcher, scorer, pow, probing, verification, request, loader, sharder>>

ObserversNext ==
  \/ \E o \in Observers : Subscribe(o)
  \/ \E o \in Observers : Unsubscribe(o)
  \/ \E s \in WidgetStates : AssignSubjectState(s)
  \/ DisposeSubject

SpecObservers == ObserversInit /\ [][ObserversNext]_vars

\* ========================================================= Proof generator
\* generateProof called several times, on one engine or on fresh ones, at
\* successive readings of the clock.
MaxProofs == 2      \* invocations of generateProof

\* the arguments of generateProof
ProofInputs ==
  [taskId : {"t1", "t2"}, sampleId : {"s1", "s2"},
   expectedLayers : 1..MaxLayers,
   layerOutputs : SeqsUpTo({0, 1}, MaxLayers) \ {<<>>},
   prediction : {[label |-> c] : c \in {0, 1}}]

ProverInit ==
  /\ Constructed
  /\ sharder = NoSharder
  /\ loader = NoLoader
  /\ request = NoRequest
  /\ verification = NoVerification
  /\ probing = NoProbing
  /\ pow = NoPow
  /\ scorer = NoScorer
  /\ dispatcher = NoDispatcher
  /\ tensorRun = NoTensorRun
  /\ runner = NoRun
  /\ subject = NoSubject
  /\ prover = [phase |-> "on", runs |-> <<>>]

\* one generateProof call on engine e (new ShardInferenceEngine(config) when
\* e is not in use yet) with Date.now() = now
GenerateProof(e, in, now) ==
  /\ prover.phase = "on"
  /\ Len(prover.runs) < MaxProofs
  /\ \A i \in 1..Len(prover.runs) :
       /\ prover.runs[i].now <= now
       /\ e <= prover.runs[i].engine + 1
  /\ prover.runs = <<>> => e = 1
  /\ prover' = [prover EXCEPT !.runs =
       Append(@, [engine |-> e, in |-> in, now |-> now,
                  proof |-> generateProof(in.taskId, in.sampleId,
                                          in.expectedLayers, in.layerOutputs,
                                          in.prediction, now)])]
  /\ UNCHANGED <<orchestrator, runner, subject, tensorRun, dispatcher, scorer, pow, probing, verification, request, loader, sharder>>

ProverNext ==
  \E e \in 1..MaxProofs, in \in ProofInputs, now \in Times : GenerateProof(e, in, now)

SpecProver == ProverInit /\ [][ProverNext]_vars

\* ========================================================== Tensors, layers
\* executeShards once more, with tensors as sequences of float values and
\* dense layers with their shapes, weights and biases.
MaxSize   == 2      \* trailing dimension of a shape, length of an input
MaxScores == 6      \* length of a score vector

\* a float: NaN or a number
NaN    == [nan |-> TRUE, v |-> 0]
Num(v) == [nan |-> FALSE, v |-> v]

Plus(a, b)    == IF a.nan \/ b.nan THEN NaN ELSE Num(a.v + b.v)
Mul(a, b)     == IF a.nan \/ b.nan THEN NaN ELSE Num(a.v * b.v)
Greater(a, b) == ~a.nan /\ ~b.nan /\ a.v > b.v

\* arr[i] of a Float32Array in arithmetic, i counted from 0: undefined, hence
\* NaN, outside the array
At(arr, i) == IF i + 1 \in 1..Len(arr) THEN arr[i + 1] ELSE NaN

\* sum of input[i] * weights[o * inputSize + i] over i = from .. inputSize-1,
\* added to acc
RECURSIVE DotFrom(_, _, _, _, _)
DotFrom(layer, input, o, from, acc) ==
  IF from >= layer.inputSize THEN acc
  ELSE DotFrom(layer, input, o, from + 1,
               Plus(acc, Mul(At(input, from),
                             At(layer.weights, o * layer.inputSize + from))))

\* NeuralLayer.denseForward: outputSize values, each biases[o] plus the dot
\* product of the input with row o of the weights
denseForward(layer, input) ==
  [k \in 1..layer.outputSize |->
     DotFrom(layer, input, k - 1, 0, At(layer.biases, k - 1))]

\* NeuralLayer.flattenForward
flattenForward(input) == input

\* NeuralLayer.forward of a layer with linear activation: the output tensor
\* or the Error thrown for an unsupported type
forwardTensor(layer, input) ==
  CASE layer.type = "dense"   -> [threw |-> FALSE, value |-> denseForward(layer, input)]
    [] layer.type = "flatten" -> [threw |-> FALSE, value |-> flattenForward(input)]
    [] OTHER                  -> [threw |-> TRUE, value |-> input]

\* labels[idx] || `class_${idx}`, idx counted from 0
LabelAt(labels, idx) ==
  IF idx + 1 \in 1..Len(labels) THEN labels[idx + 1] ELSE <<"class_", idx>>

\* Math.round(val * 1000) / 1000, in thousandths
round3(val) == IF val.nan THEN NaN ELSE Num(val.v * 1000)

\* the first loop of generatePrediction from index i (0-based) on
RECURSIVE MaxFrom(_, _, _)
MaxFrom(output, i, best) ==
  IF i >= Len(output) THEN best
  ELSE MaxFrom(output, i + 1,
               IF Greater(At(output, i), best.maxVal)
               THEN [maxIdx |-> i, maxVal |-> At(output, i)] ELSE best)

\* entries.sort((a, b) => b.val - a.val): a stable insertion of e into a
\* sorted prefix; a comparison that yields NaN counts as "equal"
RECURSIVE InsertEntry(_, _)
InsertEntry(sorted, e) ==
  IF sorted = <<>> THEN <<e>>
  ELSE LET last == sorted[Len(sorted)]
       IN  IF Greater(e.val, last.val)
           THEN Append(InsertEntry(SubSeq(sorted, 1, Len(sorted) - 1), e), last)
           ELSE Append(sorted, e)

RECURSIVE SortEntries(_, _)
SortEntries(entries, done) ==
  IF entries = <<>> THEN done
  ELSE SortEntries(Tail(entries), InsertEntry(done, Head(entries)))

\* the entries of generatePrediction: every score with its index from 0
ScoreEntries(output) ==
  [i \in 1..Len(output) |-> [val |-> output[i], idx |-> i - 1]]

\* the comparator b.val - a.val is not a consistent one on these entries: a
\* NaN compares equal to two scores that differ
Inconsistent(output) ==
  /\ \E i \in 1..Len(output) : output[i].nan
  /\ \E i, j \in 1..Len(output) :
       ~output[i].nan /\ ~output[j].nan /\ output[i].v # output[j].v

\* what entries.sort may leave: the stable descending order, or, the order
\* being implementation-defined under an inconsistent comparator, any order
SortOutcomes(output) ==
  IF Inconsistent(output)
  THEN {[i \in 1..Len(output) |-> ScoreEntries(output)[f[i]]] :
          f \in Permutations(1..Len(output))}
  ELSE {SortEntries(ScoreEntries(output), <<>>)}

\* generatePrediction(output, labels) for a non-empty output, the sort
\* having left the entries as sorted
PredictionFrom(output, labels, sorted) ==
  LET best == MaxFrom(output, 1, [maxIdx |-> 0, maxVal |-> At(output, 0)])
      k    == IF Len(output) < 5 THEN Len(output) ELSE 5
      topK == [i \in 1..k |-> [label |-> LabelAt(labels, sorted[i].idx),
                               confidence |-> round3(sorted[i].val)]]
  IN  [label |-> LabelAt(labels, best.maxIdx),
       confidence |-> round3(best.maxVal),
       topK |-> topK]

\* generatePrediction where the sort is the insertion sort
generatePrediction(output, labels) ==
  PredictionFrom(output, labels, SortEntries(ScoreEntries(output), <<>>))

\* a dense layer config: shapes given by their trailing dimension, any
\* number of weights and biases; or a flatten layer
DenseLayers ==
  {[type |-> "dense", inputSize |-> i, outputSize |-> o,
    weights |-> [x \in 1..w |-> Num(1)], biases |-> [x \in 1..b |-> Num(0)]] :
     i \in 1..MaxSize, o \in 1..MaxSize,
     w \in 0..(MaxSize * MaxSize), b \in 0..MaxSize}

FlattenLayers ==
  {[type |-> "flatten", inputSize |-> i, outputSize |-> i,
    weights |-> <<>>, biases |-> <<>>] : i \in 1..MaxSize}

\* a task of one named shard and its decoded input
TensorTasks ==
  [shards : {<<[index |-> 0, name |-> "shard", layers |-> ls]>> :
               ls \in SeqsUpTo(DenseLayers \cup FlattenLayers, MaxLayers) \ {<<>>}},
   input : {[x \in 1..n |-> Num(x)] : n \in 1..MaxSize},
   labels : {<<<<"label", 0>>, <<"label", 1>>>>}]

\* validateShard
validateShard(shard) ==
  /\ shard.name # ""
  /\ shard.layers # <<>>
  /\ \A i \in 2..Len(shard.layers) :
       shard.layers[i - 1].outputSize = shard.layers[i].inputSize

TensorInit ==
  /\ Constructed
  /\ sharder = NoSharder
  /\ loader = NoLoader
  /\ request = NoRequest
  /\ verification = NoVerification
  /\ probing = NoProbing
  /\ pow = NoPow
  /\ scorer = NoScorer
  /\ dispatcher = NoDispatcher
  /\ runner = NoRun
  /\ subject = NoSubject
  /\ prover = NoProver
  /\ tensorRun \in {[phase |-> "ready", task |-> t, layers |-> <<>>,
                     layerOutputs |-> <<>>, err |-> "none",
                     prediction |-> "none", proof |-> "none"] : t \in TensorTasks}

\* the loop of executeShards over tensors, from layer i on
RECURSIVE RunTensorLayers(_, _, _)
RunTensorLayers(layers, i, r) ==
  IF i > Len(layers) THEN r
  ELSE LET out == forwardTensor(layers[i], r.currentOutput)
       IN  IF out.threw THEN [r EXCEPT !.err = "Unsupported layer type"]
           ELSE RunTensorLayers(layers, i + 1,
                  [r EXCEPT !.currentOutput = out.value,
                            !.layerOutputs = Append(@, out.value)])

\* executeShards(task) up to the await of generateProof
ExecuteTensors ==
  /\ tensorRun.phase = "ready"
  /\ LET layers == loadShards(tensorRun.task.shards)
         r == RunTensorLayers(layers, 1,
                [currentOutput |-> tensorRun.task.input,
                 layerOutputs |-> <<>>, err |-> "none"])
     IN  tensorRun' =
           [tensorRun EXCEPT
              !.layers = layers,
              !.layerOutputs = r.layerOutputs,
              !.err = r.err,
              !.prediction =
                 IF r.err # "none" THEN "none"
                 ELSE generatePrediction(r.currentOutput, tensorRun.task.labels),
              !.phase = IF r.err # "none" THEN "failed" ELSE "proving"]
  /\ UNCHANGED <<orchestrator, runner, subject, prover, dispatcher, scorer, pow, probing, verification, request, loader, sharder>>

\* generateProof settles and executeShards returns prediction and proof
TensorProof ==
  /\ tensorRun.phase = "proving"
  /\ \E now \in Times :
       tensorRun' =
         [tensorRun EXCEPT
            !.phase = "done",
            !.proof = generateProof("task", "sample", Len(tensorRun.layers),
                                    tensorRun.layerOutputs,
                                    tensorRun.prediction, now)]
  /\ UNCHANGED <<orchestrator, runner, subject, prover, dispatcher, scorer, pow, probing, verification, request, loader, sharder>>

TensorNext == ExecuteTensors \/ TensorProof

SpecTensors == TensorInit /\ [][TensorNext]_vars

\* ============================================================== Dispatcher
\* One MLEngine driven directly: loadModel, executeShardTask and dispose in
\* any order.  The TFJSRuntime and ONNXRuntime objects the engine creates are
\* kept in a heap, each with the model (tf model or ort session) it holds and
\* the number of times that model was released.
MaxLoads == 2       \* loadModel calls

\* what detectAvailableRuntimes can have found
Availabilities == {<<>>, <<"tfjs">>, <<"onnx">>, <<"tfjs", "onnx">>}

NewRuntime(kind) == [kind |-> kind, model |-> "none", releases |-> 0]

NoLoad == [pc |-> "idle", config |-> TaskModelConfig, attempts |-> <<>>]

NewDispatcher(avail) ==
  [phase |-> "on", availableRuntimes |-> avail,
   tfjsRuntime |-> NULL, onnxRuntime |-> NULL, currentModel |-> NULL,
   shardLayers |-> 0, objects |-> <<>>, call |-> NoLoad, loads |-> 0,
   last |-> "new"]

DispatcherInit ==
  /\ Constructed
  /\ sharder = NoSharder
  /\ loader = NoLoader
  /\ request = NoRequest
  /\ verification = NoVerification
  /\ probing = NoProbing
  /\ pow = NoPow
  /\ scorer = NoScorer
  /\ runner = NoRun
  /\ subject = NoSubject
  /\ prover = NoProver
  /\ tensorRun = NoTensorRun
  /\ dispatcher \in {NewDispatcher(a) : a \in Availabilities}

\* this.tfjsRuntime = new TFJSRuntime(...) / this.onnxRuntime = new
\* ONNXRuntime(...), and the call of its loadModel: one more attempt
Attempt(d, rt) ==
  LET id == Len(d.objects) + 1
      d1 == [d EXCEPT !.objects = Append(@, NewRuntime(rt)),
                      !.call.attempts = Append(@, [rt |-> rt, id |-> id,
                                                   result |-> "pending"])]
  IN  IF rt = "tfjs" THEN [d1 EXCEPT !.tfjsRuntime = id]
      ELSE [d1 EXCEPT !.onnxRuntime = id]

\* loadModel(config) up to its first await
LoadModel(config) ==
  /\ dispatcher.phase = "on"
  /\ dispatcher.call.pc \in {"idle", "resolved", "rejected"}
  /\ dispatcher.loads < MaxLoads
  /\ LET rt == selectRuntime(dispatcher, config)
         d  == [dispatcher EXCEPT !.call = [NoLoad EXCEPT !.config = config],
                                  !.loads = @ + 1, !.last = "loadModel"]
     IN  dispatcher' = IF rt = "none" THEN [d EXCEPT !.call.pc = "rejected"]
                       ELSE [Attempt(d, rt) EXCEPT !.call.pc = "primary"]
  /\ UNCHANGED <<orchestrator, runner, subject, prover, tensorRun, scorer, pow, probing, verification, request, loader, sharder>>

\* the runtime's loadModel settled: its model is installed as currentModel,
\* or the attempt has failed
AttemptSettled(d, ok) ==
  LET n  == Len(d.call.attempts)
      id == d.call.attempts[n].id
  IN  IF ok
      THEN [d EXCEPT !.objects[id].model = "loaded", !.currentModel = id,
                     !.call.attempts[n].result = "ok", !.call.pc = "resolved"]
      ELSE [d EXCEPT !.call.attempts[n].result = "failed"]

\* the continuation of loadModel after the selected runtime settled: on
\* failure the fallback runtime, if there is one, else the error is rethrown
PrimarySettles(ok) ==
  /\ dispatcher.phase = "on"
  /\ dispatcher.call.pc = "primary"
  /\ LET d  == [AttemptSettled(dispatcher, ok) EXCEPT !.last = "settle"]
         fb == getFallbackRuntime(dispatcher, dispatcher.call.attempts[1].rt)
     IN  dispatcher' =
           IF ok THEN d
           ELSE IF fb = "none" THEN [d EXCEPT !.call.pc = "rejected"]
           ELSE [Attempt(d, fb) EXCEPT !.call.pc = "fallback"]
  /\ UNCHANGED <<orchestrator, runner, subject, prover, tensorRun, scorer, pow, probing, verification, request, loader, sharder>>

\* the continuation of loadModelWithRuntime
FallbackSettles(ok) ==
  /\ dispatcher.phase = "on"
  /\ dispatcher.call.pc = "fallback"
  /\ LET d == [AttemptSettled(dispatcher, ok) EXCEPT !.last = "settle"]
     IN  dispatcher' = IF ok THEN d ELSE [d EXCEPT !.call.pc = "rejected"]
  /\ UNCHANGED <<orchestrator, runner, subject, prover, tensorRun, scorer, pow, probing, verification, request, loader, sharder>>

\* executeShardTask(task) with n layers, taken whole: the shard engine loads
\* the layers and runs them
ExecuteShardTask(n) ==
  /\ dispatcher.phase = "on"
  /\ dispatcher' = [dispatcher EXCEPT !.shardLayers = n,
                                      !.last = "executeShardTask"]
  /\ UNCHANGED <<orchestrator, runner, subject, prover, tensorRun, scorer, pow, probing, verification, request, loader, sharder>>

\* TFJSRuntime.disposeModel, ONNXRuntime.disposeSession up to its await: the
\* model is released if the runtime holds one.  The tf model is forgotten at
\* once, the ort session only after release() has settled
ReleaseModel(objects, id) ==
  IF objects[id].model # "loaded" THEN objects
  ELSE [objects EXCEPT ![id].releases = @ + 1,
                       ![id].model = IF objects[id].kind = "tfjs"
                                     THEN "released" ELSE @]

\* the continuations of disposeSession: this.session = null
SessionsNulled(objects) ==
  [i \in 1..Len(objects) |->
     IF objects[i].kind = "onnx" /\ objects[i].releases > 0
     THEN [objects[i] EXCEPT !.model = "released"] ELSE objects[i]]

\* MLEngine.dispose()
DisposeDispatcher ==
  /\ dispatcher.phase = "on"
  /\ LET d  == dispatcher
         o1 == IF d.currentModel = NULL THEN d.objects
               ELSE ReleaseModel(d.objects, d.currentModel)
         o2 == IF d.tfjsRuntime = NULL THEN o1 ELSE ReleaseModel(o1, d.tfjsRuntime)
         o3 == IF d.onnxRuntime = NULL THEN o2 ELSE ReleaseModel(o2, d.onnxRuntime)
     IN  dispatcher' = [d EXCEPT !.shardLayers = 0, !.currentModel = NULL,
                                 !.tfjsRuntime = NULL, !.onnxRuntime = NULL,
                                 !.objects = SessionsNulled(o3),
                                 !.last = "dispose"]
  /\ UNCHANGED <<orchestrator, runner, subject, prover, tensorRun, scorer, pow, probing, verification, request, loader, sharder>>

DispatcherNext ==
  \/ \E c \in ModelConfigs : LoadModel(c)
  \/ \E ok \in BOOLEAN : PrimarySettles(ok)
  \/ \E ok \in BOOLEAN : FallbackSettles(ok)
  \/ \E n \in 1..MaxLayers : ExecuteShardTask(n)
  \/ DisposeDispatcher

SpecDispatcher == DispatcherInit /\ [][DispatcherNext]_vars

\* ============================================================== Prediction
\* generatePrediction applied to a score vector and a label list.
ScoreValues == {NaN, Num(1), Num(2)}

ScoreVectors == SeqsUpTo(ScoreValues, MaxScores) \ {<<>>}

\* the labels of the task: fewer than some vectors have scores
LabelLists == {<<<<"label", 0>>, <<"label", 1>>>>}

ScorerInit ==
  /\ Constructed
  /\ sharder = NoSharder
  /\ loader = NoLoader
  /\ request = NoRequest
  /\ verification = NoVerification
  /\ probing = NoProbing
  /\ pow = NoPow
  /\ runner = NoRun
  /\ subject = NoSubject
  /\ prover = NoProver
  /\ tensorRun = NoTensorRun
  /\ dispatcher = NoDispatcher
  /\ scorer \in {[phase |-> "ready", output |-> o, labels |-> l,
                  prediction |-> "none"] : o \in ScoreVectors, l \in LabelLists}

\* generatePrediction(output, labels)
Predict ==
  /\ scorer.phase = "ready"
  /\ \E sorted \in SortOutcomes(scorer.output) :
       scorer' = [scorer EXCEPT
                    !.phase = "done",
                    !.prediction = PredictionFrom(scorer.output, scorer.labels,
                                                  sorted)]
  /\ UNCHANGED <<orchestrator, runner, subject, prover, tensorRun, dispatcher, pow, probing, verification, request, loader, sharder>>

ScorerNext == Predict

SpecScorer == ScorerInit /\ [][ScorerNext]_vars

\* ============================================================ Proof of work
\* generatePoWHash and verifyPoWHash.  A string is a sequence of characters;
\* a digest and a number written out are single characters of their own, as
\* neither contains ':'.
MaxNonce == 3      \* nonces the search tries; 1000000 in the loop guard

Chars == {"a", ":"}

\* modelChecksum and sessionId
Strings == SeqsUpTo(Chars, 1)

\* sampleData and the serialized topK
Payloads == {"x", "y"}

\* sha256(data): the digest as one hex string, collision free
sha256(data) == <<hashData(data)>>

\* [a, b, c, d, e].join(':')
join(a, b, c, d, e) ==
  a \o <<":">> \o b \o <<":">> \o c \o <<":">> \o d \o <<":">> \o e

\* nonce.toString()
toString(n) == <<n>>

PoWInputs ==
  [modelChecksum : Strings, inputData : Payloads, outputData : Payloads,
   sessionId : Strings]

\* the nonces whose payload, for the input at hand, has a digest that starts
\* with '0': which ones is a property of SHA-256 the model leaves open
ZeroSets == SUBSET (0..(MaxNonce - 1))

NoProof == [hash |-> <<>>, nonce |-> -1, modelChecksum |-> <<>>,
            inputHash |-> <<>>, outputHash |-> <<>>]

PowInit ==
  /\ Constructed
  /\ sharder = NoSharder
  /\ loader = NoLoader
  /\ request = NoRequest
  /\ verification = NoVerification
  /\ probing = NoProbing
  /\ runner = NoRun
  /\ subject = NoSubject
  /\ prover = NoProver
  /\ tensorRun = NoTensorRun
  /\ dispatcher = NoDispatcher
  /\ scorer = NoScorer
  /\ pow \in {[phase |-> "called", input |-> in, zeroes |-> z,
               inputHash |-> <<>>, outputHash |-> <<>>,
               nonce |-> 0, hash |-> <<>>, proof |-> NoProof,
               tampered |-> "none", accepted |-> FALSE] :
                in \in PoWInputs, z \in ZeroSets}

\* the payload generatePoWHash hashes for a nonce
PayloadOf(p, nonce) ==
  join(p.input.modelChecksum, p.inputHash, p.outputHash, p.input.sessionId,
       toString(nonce))

\* hash.startsWith('0'), for a digest of the search
startsWithZero(p, hash) ==
  \E n \in p.zeroes : hash = sha256(PayloadOf(p, n))

\* lines 229-230: the two digests of the input
HashInput ==
  /\ pow.phase = "called"
  /\ pow' = [pow EXCEPT !.phase = "searching",
                        !.inputHash = sha256(pow.input.inputData),
                        !.outputHash = sha256(pow.input.outputData)]
  /\ UNCHANGED <<orchestrator, runner, subject, prover, tensorRun, dispatcher,
                 scorer, probing, verification, request, loader, sharder>>

\* lines 241-260: one pass of the do-while loop, and the return after the
\* last one
TryNonce ==
  /\ pow.phase = "searching"
  /\ LET hash  == sha256(PayloadOf(pow, pow.nonce))
         nonce == pow.nonce + 1
     IN  IF ~startsWithZero(pow, hash) /\ nonce < MaxNonce
         THEN pow' = [pow EXCEPT !.hash = hash, !.nonce = nonce]
         ELSE pow' = [pow EXCEPT
                        !.phase = "returned", !.hash = hash, !.nonce = nonce,
                        !.proof = [hash |-> hash, nonce |-> nonce - 1,
                                   modelChecksum |-> pow.input.modelChecksum,
                                   inputHash |-> pow.inputHash,
                                   outputHash |-> pow.outputHash]]
  /\ UNCHANGED <<orchestrator, runner, subject, prover, tensorRun, dispatcher,
                 scorer, probing, verification, request, loader, sharder>>

\* verifyPoWHash(pow, sessionId)
verifyPoWHash(p, proof, sessionId) ==
  LET payload == join(proof.modelChecksum, proof.inputHash, proof.outputHash,
                      sessionId, toString(proof.nonce))
      computedHash == sha256(payload)
  IN  computedHash = proof.hash /\ startsWithZero(p, proof.hash)

\* the proof as returned, or with one of its parts replaced
Tampered(p) ==
  {<<"none", p.proof, p.input.sessionId>>}
    \cup {<<"nonce", [p.proof EXCEPT !.nonce = n], p.input.sessionId>> :
            n \in (0..MaxNonce) \ {p.proof.nonce}}
    \cup {<<"sessionId", p.proof, s>> : s \in Strings \ {p.input.sessionId}}
    \cup {<<"inputHash", [p.proof EXCEPT !.inputHash = sha256(d)],
            p.input.sessionId>> : d \in Payloads \ {p.input.inputData}}
    \cup {<<"outputHash", [p.proof EXCEPT !.outputHash = sha256(d)],
            p.input.sessionId>> : d \in Payloads \ {p.input.outputData}}

\* the validator, or a test, verifies what it was handed
VerifyProof ==
  /\ pow.phase = "returned"
  /\ \E t \in Tampered(pow) :
       pow' = [pow EXCEPT !.phase = "verified", !.tampered = t[1],
                          !.accepted = verifyPoWHash(pow, t[2], t[3])]
  /\ UNCHANGED <<orchestrator, runner, subject, prover, tensorRun, dispatcher,
                 scorer, probing, verification, request, loader, sharder>>

PowNext == HashInput \/ TryNonce \/ VerifyProof

SpecPow == PowInit /\ [][PowNext]_vars

\* ================================================================= Probing
\* new MLEngine(config) and what follows it: the constructor starts
\* detectAvailableRuntimes without awaiting it, so the two capability checks
\* are answered in later microtasks while the caller already holds the
\* engine.
\* what the capability checks answer in this browser
Browsers == SUBSET {"tfjs", "onnx"}

\* lines 43-53: the engine as the constructor returns it: the list has been
\* emptied and checkTFJSAvailable is awaited
NewProbing(browser) ==
  [phase |-> "on", browser |-> browser, availableRuntimes |-> <<>>,
   pc |-> "checkTFJS", selections |-> <<>>]

\* the list once both checks have been answered
Probed(browser) ==
  (IF "tfjs" \in browser THEN <<"tfjs">> ELSE <<>>)
    \o (IF "onnx" \in browser THEN <<"onnx">> ELSE <<>>)

ProbingInit ==
  /\ Constructed
  /\ sharder = NoSharder
  /\ loader = NoLoader
  /\ request = NoRequest
  /\ verification = NoVerification
  /\ runner = NoRun
  /\ subject = NoSubject
  /\ prover = NoProver
  /\ tensorRun = NoTensorRun
  /\ dispatcher = NoDispatcher
  /\ scorer = NoScorer
  /\ pow = NoPow
  /\ probing \in {NewProbing(b) : b \in Browsers}

\* lines 55-61: checkTFJSAvailable has answered; checkONNXAvailable is awaited
TFJSChecked ==
  /\ probing.phase = "on"
  /\ probing.pc = "checkTFJS"
  /\ probing' = [probing EXCEPT
                   !.availableRuntimes =
                     IF "tfjs" \in probing.browser THEN Append(@, "tfjs") ELSE @,
                   !.pc = "checkONNX"]
  /\ UNCHANGED <<orchestrator, runner, subject, prover, tensorRun, dispatcher,
                 scorer, pow, verification, request, loader, sharder>>

\* lines 61-69: checkONNXAvailable has answered
ONNXChecked ==
  /\ probing.phase = "on"
  /\ probing.pc = "checkONNX"
  /\ probing' = [probing EXCEPT
                   !.availableRuntimes =
                     IF "onnx" \in probing.browser THEN Append(@, "onnx") ELSE @,
                   !.pc = "done"]
  /\ UNCHANGED <<orchestrator, runner, subject, prover, tensorRun, dispatcher,
                 scorer, pow, verification, request, loader, sharder>>

\* loadModel(config) up to the end of selectRuntime, which runs in the
\* caller's own task: the runtime selected, "none" for the thrown
\* 'No ML runtime available'
SelectAtLoad(config) ==
  /\ probing.phase = "on"
  /\ Len(probing.selections) < MaxLoads
  /\ probing' = [probing EXCEPT
                   !.selections =
                     Append(@, [config |-> config, at |-> probing.pc,
                                runtime |-> selectRuntime(probing, config)])]
  /\ UNCHANGED <<orchestrator, runner, subject, prover, tensorRun, dispatcher,
                 scorer, pow, verification, request, loader, sharder>>

ProbingNext ==
  \/ TFJSChecked
  \/ ONNXChecked
  \/ \E config \in ModelConfigs : SelectAtLoad(config)

SpecProbing == ProbingInit /\ [][ProbingNext]_vars

\* ============================================================ Verification
\* One challenge from the moment execute() has shown the verification panel
\* (captcha.ts 125-130): the clicks on the panel, handleVerification and its
\* continuation, and what ends the wait.
MaxClicks == 3      \* clicks on the panel's Yes and Submit buttons

ResponseTypes == {"confirm", "correct"}

\* lines 125-127: verificationData stored, state verifying, panel rendered
VerificationInit ==
  /\ Constructed
  /\ sharder = NoSharder
  /\ loader = NoLoader
  /\ request = NoRequest
  /\ runner = NoRun
  /\ subject = NoSubject
  /\ prover = NoProver
  /\ tensorRun = NoTensorRun
  /\ dispatcher = NoDispatcher
  /\ scorer = NoScorer
  /\ pow = NoPow
  /\ probing = NoProbing
  /\ verification = [phase |-> "on", session |-> TRUE, state |-> "verifying",
                     verificationData |-> TRUE, captchaToken |-> NullToken,
                     buttons |-> TRUE, clicks |-> 0, requests |-> <<>>,
                     inFlight |-> 0, refusals |-> 0]

\* lines 405-417: handleVerification up to its await; a request records the
\* state the Session was in when it was sent
handleVerification(v, response) ==
  IF ~v.session \/ ~v.verificationData
  THEN [v EXCEPT !.refusals = @ + 1]
  ELSE [v EXCEPT !.requests = Append(@, [responseType |-> response,
                                         state |-> v.state]),
                 !.inFlight = @ + 1]

\* VerificationUI.handleConfirm / handleCorrection: cleanup() releases the
\* focus trap and the escape handler, the buttons stay, onSubmit is called
ClickSubmit(response) ==
  /\ verification.phase = "on"
  /\ verification.buttons
  /\ verification.clicks < MaxClicks
  /\ verification' = [handleVerification(verification, response) EXCEPT
                        !.clicks = @ + 1]
  /\ UNCHANGED <<orchestrator, runner, subject, prover, tensorRun, dispatcher,
                 scorer, pow, probing, request, loader, sharder>>

\* handleError on this instance: the Session, if any, goes to error and
\* showError destroys the panel
VerificationError(v) ==
  [v EXCEPT !.state = IF v.session THEN "error" ELSE @, !.buttons = FALSE]

\* lines 419-426: submitVerification settles
VerificationAnswered(ok, tok) ==
  /\ verification.phase = "on"
  /\ verification.inFlight > 0
  /\ LET v == [verification EXCEPT !.inFlight = @ - 1]
     IN  verification' =
           IF ok /\ v.session
           THEN [v EXCEPT !.captchaToken = tok, !.state = "success",
                          !.buttons = FALSE]
           ELSE VerificationError(v)
  /\ UNCHANGED <<orchestrator, runner, subject, prover, tensorRun, dispatcher,
                 scorer, pow, probing, request, loader, sharder>>

\* the wait of execute() ends in a timeout or an expiry: catch, handleError
WaitFails ==
  /\ verification.phase = "on"
  /\ verification.session
  /\ verification.state = "verifying"
  /\ verification' = VerificationError(verification)
  /\ UNCHANGED <<orchestrator, runner, subject, prover, tensorRun, dispatcher,
                 scorer, pow, probing, request, loader, sharder>>

\* PoUWCaptcha.reset(): the Session is dropped, widget.reset() destroys the panel
ResetVerification ==
  /\ verification.phase = "on"
  /\ verification.session
  /\ verification' = [verification EXCEPT
                        !.session = FALSE, !.state = "none",
                        !.verificationData = FALSE,
                        !.captchaToken = NullToken, !.buttons = FALSE]
  /\ UNCHANGED <<orchestrator, runner, subject, prover, tensorRun, dispatcher,
                 scorer, pow, probing, request, loader, sharder>>

VerificationNext ==
  \/ \E response \in ResponseTypes : ClickSubmit(response)
  \/ \E ok \in BOOLEAN, tok \in VerifyTokens :
       (~ok => tok = Undefined) /\ VerificationAnswered(ok, tok)
  \/ WaitFails
  \/ ResetVerification

SpecVerification == VerificationInit /\ [][VerificationNext]_vars

\* ================================================================ Request
\* ApiClient.request: one fetch with an abort timer, then the body.
Endpoints == {"init", "submit", "verify"}

\* config.get('timeout'): 0 stands for a timeout that is not configured
ConfiguredTimeouts == {0, 5000}

DefaultTimeout == 30000    \* this.config.get('timeout') || 30000

Statuses == {200, 404, 500}

\* response.ok
Ok(status) == status \in 200..299

\* what response.json() gives: the parsed value, or a rejection
Bodies == {"object", "objectWithMessage", "null", "malformed", "connectionLost"}

\* new ApiError(status, message, details)
NewApiError(status, message) ==
  [cls |-> "ApiError", status |-> status, message |-> message]

\* lines 429-433: the url, the timeout, the controller and the armed timer
NewRequest(endpoint, configured) ==
  [phase |-> "fetching", endpoint |-> endpoint,
   timeout |-> IF configured = 0 THEN DefaultTimeout ELSE configured,
   timerArmed |-> TRUE, aborted |-> FALSE, status |-> 0, body |-> "none",
   outcome |-> "pending", error |-> [cls |-> "none"]]

RequestInit ==
  /\ Constructed
  /\ sharder = NoSharder
  /\ loader = NoLoader
  /\ runner = NoRun
  /\ subject = NoSubject
  /\ prover = NoProver
  /\ tensorRun = NoTensorRun
  /\ dispatcher = NoDispatcher
  /\ scorer = NoScorer
  /\ pow = NoPow
  /\ probing = NoProbing
  /\ verification = NoVerification
  /\ request \in {NewRequest(e, t) : e \in Endpoints, t \in ConfiguredTimeouts}

\* lines 463-477: the catch block; thrown is what was thrown in the try block
Caught(r, thrown) ==
  [r EXCEPT
     !.timerArmed = FALSE,
     !.phase = "settled",
     !.outcome = "rejected",
     !.error =
       IF thrown.cls = "ApiError" THEN thrown
       ELSE IF thrown.cls = "AbortError"
       THEN NewApiError(0, "Request timeout")
       ELSE NewApiError(0, thrown.message)]

\* the timer callback: controller.abort() makes the pending fetch reject
\* with an AbortError
TimerFires ==
  /\ request.phase = "fetching"
  /\ request.timerArmed
  /\ request' = Caught([request EXCEPT !.aborted = TRUE],
                       [cls |-> "AbortError", message |-> "aborted"])
  /\ UNCHANGED <<orchestrator, runner, subject, prover, tensorRun, dispatcher,
                 scorer, pow, probing, verification, loader, sharder>>

\* fetch rejects: no connection, CORS, DNS
FetchFails ==
  /\ request.phase = "fetching"
  /\ request' = Caught(request, [cls |-> "TypeError",
                                 message |-> "Failed to fetch"])
  /\ UNCHANGED <<orchestrator, runner, subject, prover, tensorRun, dispatcher,
                 scorer, pow, probing, verification, loader, sharder>>

\* lines 438-448: fetch resolves with the response's status line and
\* headers; the timer is cleared and response.json() awaited
FetchResponds(status) ==
  /\ request.phase = "fetching"
  /\ request' = [request EXCEPT !.phase = "body", !.status = status,
                                !.timerArmed = FALSE]
  /\ UNCHANGED <<orchestrator, runner, subject, prover, tensorRun, dispatcher,
                 scorer, pow, probing, verification, loader, sharder>>

\* lines 450-462: response.json() settles
BodySettles(body) ==
  /\ request.phase = "body"
  /\ LET r == [request EXCEPT !.body = body]
         rejects == body \in {"malformed", "connectionLost"}
         thrown  == IF body = "malformed"
                    THEN [cls |-> "SyntaxError", message |-> "Unexpected token"]
                    ELSE [cls |-> "TypeError", message |-> "network error"]
     IN  request' =
           IF Ok(request.status)
           THEN IF rejects THEN Caught(r, thrown)
                ELSE [r EXCEPT !.phase = "settled", !.outcome = "resolved"]
           ELSE \* .catch(() => ({})) turns a rejection into an empty object;
                \* errorData.message on null throws a TypeError
                IF body = "null"
                THEN Caught(r, [cls |-> "TypeError",
                                message |-> "Cannot read properties of null"])
                ELSE Caught(r, NewApiError(request.status,
                                 IF body = "objectWithMessage"
                                 THEN "errorData.message"
                                 ELSE <<"HTTP", request.status>>))
  /\ UNCHANGED <<orchestrator, runner, subject, prover, tensorRun, dispatcher,
                 scorer, pow, probing, verification, loader, sharder>>

RequestNext ==
  \/ TimerFires
  \/ FetchFails
  \/ \E status \in Statuses : FetchResponds(status)
  \/ \E body \in Bodies : BodySettles(body)

SpecRequest == RequestInit /\ [][RequestNext]_vars

\* ============================================================ Model loader
\* ModelLoader: loadModel calls made one after the other on one instance,
\* with the IndexedDB store of model entries, keyed by url.  Ages are in
\* days; an entry written by this instance is 0 days old.
CacheMaxAge == 7      \* cacheMaxAge, in days

Urls      == {"u1", "u2"}
Checksums == {"c1", "c2"}
ModelData == {"d1", "d2"}

NoEntry == [checksum |-> "none", age |-> 0, data |-> "none"]

\* what earlier page visits can have left under a url
Entries ==
  {NoEntry} \cup [checksum : Checksums,
                  age : {0, CacheMaxAge, CacheMaxAge + 1},
                  data : ModelData]

\* isExpired(cached): Date.now() - cached.timestamp > this.cacheMaxAge
EntryExpired(cached) == cached.age > CacheMaxAge

NoFetch == [pc |-> "idle", url |-> "none", checksum |-> "none",
            cached |-> NoEntry, fetched |-> FALSE, data |-> "none",
            saveWithDb |-> FALSE, source |-> "none", outcome |-> "none"]

\* the constructor: initDB has been started, this.db is still null; earlier
\* visits have cached at most the model at u1
LoaderInit ==
  /\ Constructed
  /\ sharder = NoSharder
  /\ runner = NoRun
  /\ subject = NoSubject
  /\ prover = NoProver
  /\ tensorRun = NoTensorRun
  /\ dispatcher = NoDispatcher
  /\ scorer = NoScorer
  /\ pow = NoPow
  /\ probing = NoProbing
  /\ verification = NoVerification
  /\ request = NoRequest
  /\ loader \in {[phase |-> "on", db |-> FALSE, store |-> s, call |-> NoFetch,
                  previous |-> NoFetch, loads |-> 0] :
                   s \in {[u \in Urls |-> IF u = "u1" THEN e ELSE NoEntry] :
                            e \in Entries}}

\* initDB: request.onsuccess
DbOpens ==
  /\ loader.phase = "on"
  /\ ~loader.db
  /\ loader' = [loader EXCEPT !.db = TRUE]
  /\ UNCHANGED <<orchestrator, runner, subject, prover, tensorRun, dispatcher,
                 scorer, pow, probing, verification, request, sharder>>

\* lines 72-80: the outcome of getFromCache is looked at: the cached bytes
\* are returned, or fetch(url) is called
AfterCacheRead(l, cached) ==
  IF cached # NoEntry /\ cached.checksum = l.call.checksum
     /\ ~EntryExpired(cached)
  THEN [l EXCEPT !.call.cached = cached, !.call.pc = "settled",
                 !.call.source = "cache", !.call.data = cached.data,
                 !.call.outcome = "resolved"]
  ELSE [l EXCEPT !.call.cached = cached, !.call.pc = "fetching",
                 !.call.fetched = TRUE]

\* loadModel(url, checksum) up to its first await; getFromCache answers
\* null at once when this.db is null
LoadFromCacheOrNetwork(url, checksum) ==
  /\ loader.phase = "on"
  /\ loader.call.pc \in {"idle", "settled"}
  /\ loader.loads < MaxLoads
  /\ LET l == [loader EXCEPT
                 !.previous = loader.call,
                 !.loads = @ + 1,
                 !.call = [NoFetch EXCEPT !.pc = "reading", !.url = url,
                                          !.checksum = checksum]]
     IN  loader' = IF loader.db THEN l ELSE AfterCacheRead(l, NoEntry)
  /\ UNCHANGED <<orchestrator, runner, subject, prover, tensorRun, dispatcher,
                 scorer, pow, probing, verification, request, sharder>>

\* getFromCache: store.get(url) succeeds with the entry or undefined, or
\* fails, which counts as no entry
CacheReadSettles(ok) ==
  /\ loader.phase = "on"
  /\ loader.call.pc = "reading"
  /\ loader' = AfterCacheRead(loader, IF ok THEN loader.store[loader.call.url]
                                      ELSE NoEntry)
  /\ UNCHANGED <<orchestrator, runner, subject, prover, tensorRun, dispatcher,
                 scorer, pow, probing, verification, request, sharder>>

\* lines 80-95: fetch and arrayBuffer settle; saveToCache returns at once
\* when this.db is null, else store.put is awaited
ModelFetched(ok, data) ==
  /\ loader.phase = "on"
  /\ loader.call.pc = "fetching"
  /\ loader' =
       IF ~ok
       THEN [loader EXCEPT !.call.pc = "settled", !.call.outcome = "rejected"]
       ELSE IF loader.db
       THEN [loader EXCEPT !.call.pc = "saving", !.call.data = data,
                           !.call.saveWithDb = TRUE]
       ELSE [loader EXCEPT !.call.pc = "settled", !.call.data = data,
                           !.call.source = "network",
                           !.call.outcome = "resolved"]
  /\ UNCHANGED <<orchestrator, runner, subject, prover, tensorRun, dispatcher,
                 scorer, pow, probing, verification, request, sharder>>

\* the entry saveToCache writes: timestamp Date.now()
saveToCache(store, url, checksum, data) ==
  [store EXCEPT ![url] = [checksum |-> checksum, age |-> 0, data |-> data]]

\* saveToCache: store.put(model) succeeds, or fails and rejects loadModel
CacheWriteSettles(ok) ==
  /\ loader.phase = "on"
  /\ loader.call.pc = "saving"
  /\ loader' =
       IF ok
       THEN [loader EXCEPT
               !.store = saveToCache(@, loader.call.url, loader.call.checksum,
                                     loader.call.data),
               !.call.pc = "settled", !.call.source = "network",
               !.call.outcome = "resolved"]
       ELSE [loader EXCEPT !.call.pc = "settled", !.call.outcome = "rejected"]
  /\ UNCHANGED <<orchestrator, runner, subject, prover, tensorRun, dispatcher,
                 scorer, pow, probing, verification, request, sharder>>

LoaderNext ==
  \/ DbOpens
  \/ \E url \in Urls, checksum \in Checksums :
       LoadFromCacheOrNetwork(url, checksum)
  \/ \E ok \in BOOLEAN : CacheReadSettles(ok)
  \/ \E ok \in BOOLEAN, data \in ModelData : ModelFetched(ok, data)
  \/ \E ok \in BOOLEAN : CacheWriteSettles(ok)

SpecLoader == LoaderInit /\ [][LoaderNext]_vars

\* ================================================================ Sharding
\* shardModel on the server side and mergeShards over what it returned,
\* handed over in any order.  A layer is its name.
MaxModelLayers == 4     \* layers of a model
MaxPerShard    == 3     \* config.maxLayersPerShard

LayerNames == {"a", "b", "c"}

Models == SeqsUpTo(LayerNames, MaxModelLayers)

\* the last shard, cut short by the end of the list, is left out
ShardWithoutTail(layers, maxLayersPerShard, i, currentShardLayers, shards) ==
  shards

\* the for loop of shardModel from layer i (1-based) on; the shard index is
\* the number of shards made so far
RECURSIVE shardModel(_, _, _, _, _)
shardModel(layers, maxLayersPerShard, i, currentShardLayers, shards) ==
  IF i > Len(layers) THEN shards
  ELSE LET current == Append(currentShardLayers, layers[i])
           shouldCreateShard == \/ Len(current) >= maxLayersPerShard
                                \/ i = Len(layers)
       IN  IF shouldCreateShard /\ Len(current) > 0
           THEN shardModel(layers, maxLayersPerShard, i + 1, <<>>,
                           Append(shards,
                                  [index |-> Len(shards),
                                   name |-> <<"shard", Len(shards),
                                              current[1],
                                              current[Len(current)]>>,
                                   layers |-> current]))
           ELSE shardModel(layers, maxLayersPerShard, i + 1, current, shards)

SharderInit ==
  /\ Constructed
  /\ runner = NoRun
  /\ subject = NoSubject
  /\ prover = NoProver
  /\ tensorRun = NoTensorRun
  /\ dispatcher = NoDispatcher
  /\ scorer = NoScorer
  /\ pow = NoPow
  /\ probing = NoProbing
  /\ verification = NoVerification
  /\ request = NoRequest
  /\ loader = NoLoader
  /\ sharder \in {[phase |-> "given", layers |-> m, maxLayersPerShard |-> k,
                   shards |-> <<>>, handed |-> <<>>, merged |-> <<>>] :
                    m \in Models, k \in 1..MaxPerShard}

\* shardModel(layers, config)
ShardModel ==
  /\ sharder.phase = "given"
  /\ sharder' = [sharder EXCEPT
                   !.phase = "sharded",
                   !.shards = shardModel(sharder.layers,
                                         sharder.maxLayersPerShard, 1,
                                         <<>>, <<>>)]
  /\ UNCHANGED <<orchestrator, runner, subject, prover, tensorRun, dispatcher,
                 scorer, pow, probing, verification, request, loader>>

\* mergeShards(shards), the shards given in the order f
MergeShards ==
  /\ sharder.phase = "sharded"
  /\ \E f \in Permutations(1..Len(sharder.shards)) :
       LET handed == [i \in 1..Len(sharder.shards) |-> sharder.shards[f[i]]]
       IN  sharder' = [sharder EXCEPT !.phase = "merged",
                                      !.handed = handed,
                                      !.merged = mergeShards(handed)]
  /\ UNCHANGED <<orchestrator, runner, subject, prover, tensorRun, dispatcher,
                 scorer, pow, probing, verification, request, loader>>

SharderNext == ShardModel \/ MergeShards

SpecSharder == SharderInit /\ [][SharderNext]_vars

\* =================================================================== claims
\* an execute() call whose promise has been rejected / resolved in the step
\* that led to this state
JustRejected(p) == calls[p].pc = "rejected" /\ calls[p].err # NoError
JustResolved(p) == calls[p].pc = "resolved" /\ calls[p].result # NullToken
\* the call had entered waitForVerification
Waited(p)       == calls[p].deadline # -1

\* C1: at most one challenge is in flight per instance: while an execute()
\* call has not settled, no second call gets past the isExecuting guard,
\* whatever execute(), reset(), retry and verification callbacks interleave.
C1_OneChallengeInFlight ==
  Cardinality({p \in Calls : InFlight(calls[p])}) <= 1

\* C2: success and error are terminal: a Session whose state is success or
\* error keeps that state in every later step for as long as it exists.
C2_TerminalStates ==
  [][\A q \in Calls :
       (sessions[q].state \in {"success", "error"} /\ sessions'[q] # NoSession)
         => sessions'[q].state = sessions[q].state]_vars

\* C3: a Session in state success holds a token issued by the validator.
C3_SuccessHasToken ==
  \A q \in Calls :
    sessions[q].state = "success" => sessions[q].captchaToken \in Tokens

\* C4: when execute() rejects after it constructed its Session, that Session
\* is in state error and its error field holds the error execute() rejected
\* with.
C4_ErrorRecorded ==
  \A p \in Calls :
    (JustRejected(p) /\ session = p)
      => /\ sessions[p].state = "error"
         /\ sessions[p].error = calls[p].err

\* C5: a challenge that ends in failure has been reported to onError and
\* widget.showError exactly once when its execute() call rejects.
C5_ReportedOnce ==
  \A p \in Calls : JustRejected(p) => calls[p].reports = 1

\* C6: whenever every challenge has left (its execute() settled, or reset()
\* abandoned it) the MLEngine holds no model, no runtime and no shard layers,
\* and no later step of an abandoned challenge changes that.
C6_EngineReleased ==
  (\A p \in Calls : InFlight(calls[p]) => calls[p].abandoned)
    => EngineEmpty(mlEngine)

\* C7: an execute() call that fails in the adjudication wait once the
\* deadline (the remaining time-to-expiry when the wait began) has elapsed
\* fails with TIMEOUT_ERROR 'Verification timeout'.
C7_DeadlineGivesTimeout ==
  \A p \in Calls :
    (JustRejected(p) /\ Waited(p) /\ calls[p].deadline <= 0)
      => calls[p].err = VerifyTimeout

\* C8: a call in the adjudication wait settles no later than its deadline:
\* it is never still waiting after the deadline, and while it waits a poll
\* loop or a timeout that can settle it is armed.
C8_WaitSettlesByDeadline ==
  \A p \in Calls :
    calls[p].pc = "waiting"
      => /\ calls[p].deadline >= 0
         /\ calls[p].intervalOn \/ calls[p].timerDue >= 0

\* C9: a Session enters state verifying only in the step that handles a
\* submit response with requiresVerification true and a verification payload
\* present; the payload is on the Session by then, and the observers told of
\* the new state already see it.
C9_VerifyingOnlyOnDemand ==
  [][\A q \in Calls :
       (sessions[q].state # "verifying" /\ sessions'[q].state = "verifying")
         => /\ \E p \in Calls :
                 /\ calls[p].pc = "awaitSubmit"
                 /\ calls'[p].pc = "waiting"
                 /\ calls'[p].submitResponse.requiresVerification
                 /\ calls'[p].submitResponse.verification
            /\ sessions'[q].verificationData
            /\ notifyLog'.state = "verifying" => notifyLog'.vdata]_vars

\* C9 witness: a call waits for adjudication on its own Session, which is in
\* state verifying with the payload stored and the observers notified.
C9_Witness ==
  \E p \in Calls :
    /\ calls[p].pc = "waiting"
    /\ calls[p].submitResponse.requiresVerification
    /\ session = p
    /\ sessions[p].state = "verifying"
    /\ sessions[p].verificationData
    /\ notifyLog = [state |-> "verifying", vdata |-> TRUE]

\* C10: execute() resolves straight from the submit response, without an
\* adjudication wait, only if the response carries a token and does not
\* require verification.
C10_DirectSuccess ==
  \A p \in Calls :
    (JustResolved(p) /\ ~Waited(p))
      => /\ HasToken(calls[p].submitResponse)
         /\ ~calls[p].submitResponse.requiresVerification

\* C11: a Session's own state follows idle, loading, processing, (verifying,)
\* success: it enters verifying only from processing and success only from
\* processing or verifying, never directly from idle.
C11_StateSequence ==
  [][\A q \in Calls :
       /\ (sessions[q].state # "verifying" /\ sessions'[q].state = "verifying")
            => sessions[q].state = "processing"
       /\ (sessions[q].state # "success" /\ sessions'[q].state = "success")
            => sessions[q].state \in {"processing", "verifying"}]_vars

\* C13: isCompleted() is true exactly when the state is success and a token
\* issued by the validator is present; success with a token that was never
\* set, or set from a response that carried none, is not completed.
C13_CompletedIffToken ==
  \A q \in Calls :
    sessions[q] # NoSession
      => (isCompleted(sessions[q])
            <=> (sessions[q].state = "success"
                   /\ sessions[q].captchaToken \in Tokens))

\* C14: when execute() constructs a new Session, the Session the instance
\* held before has been disposed: this.session names no Session, or one
\* whose listeners have been cleared.
C14_PreviousDisposed ==
  [][\A p \in Calls :
       (sessions[p] = NoSession /\ sessions'[p] # NoSession)
         => (session = NULL \/ ~sessions[session].listeners)]_vars

\* a field of Session b differs from that of Session a, the clock aside
Mutated(a, b) == [a EXCEPT !.expiresIn = 0] # [b EXCEPT !.expiresIn = 0]

\* C15: a Session is mutated only by the execute() call that constructed it:
\* no step of a call abandoned by reset() writes into the Session another
\* call constructed, nor resolves with that Session's token.
C15_OwnSessionOnly ==
  [][\A p \in Calls :
       (calls[p].abandoned /\ calls'[p].pc # calls[p].pc)
         => /\ \A q \in Calls \ {p} :
                 (sessions[q] # NoSession /\ sessions'[q] # NoSession)
                   => ~Mutated(sessions[q], sessions'[q])
            /\ ~(calls'[p].pc = "resolved" /\ session \in Calls \ {p})]_vars

\* C16: a layer whose forward pass throws aborts the whole shard task:
\* execute() rejects with the layer's error, nothing has been submitted to
\* the validator for the challenge and no token is issued to the caller.
C16_LayerFailureAborts ==
  \A p \in Calls :
    calls[p].layerFailed
      => /\ calls[p].pc = "rejected"
         /\ calls[p].err = ModelError
         /\ calls[p].submits = 0
         /\ calls[p].result = NullToken
         /\ calls[p].successes = 0

\* C16 witness: an execute() call has just rejected because a layer of its
\* shard task failed.
C16_Witness ==
  \E p \in Calls :
    /\ calls[p].layerFailed
    /\ calls[p].pc = "rejected"
    /\ ~calls[p].abandoned
    /\ session = p
    /\ sessions[p].state = "error"


\* C17: the Shard Runner executes the layers in shard-index-sorted order,
\* whatever the order of the shards in task.shards: once a run has loaded its
\* layers, they are the layers of the shards taken by ascending index.
C17_SortedOrder ==
  runner.phase \in {"proving", "done", "failed"}
    => runner.layers = mergeShards(runner.task.shards)


\* the number of layers the shards of a task carry
RECURSIVE TotalLayers(_)
TotalLayers(shards) ==
  IF shards = <<>> THEN 0
  ELSE Len(Head(shards).layers) + TotalLayers(Tail(shards))

\* C18: a successful executeShards over N layers returns N layer outputs,
\* output i being layer i applied to output i-1 (the decoded input for the
\* first); its proof has layerCount = N and N output hashes, hash i being the
\* digest of layer output i.
C18_OutputsAndProof ==
  runner.phase = "done" =>
    LET N == TotalLayers(runner.task.shards)
        outs == runner.layerOutputs
    IN  /\ Len(outs) = N
        /\ Len(runner.layers) = N
        /\ \A i \in 1..N :
             outs[i] = forward(runner.layers[i],
                               IF i = 1 THEN runner.task.inputData
                               ELSE outs[i - 1]).value
        /\ runner.proof.layerCount = N
        /\ Len(runner.proof.outputHashes) = N
        /\ \A i \in 1..N : runner.proof.outputHashes[i] = hashTensor(outs[i])

C18_Witness ==
  /\ runner.phase = "done"
  /\ Len(runner.layerOutputs) = 3
  /\ runner.task.expectedLayers # 3
  /\ runner.layerOutputs[1] # runner.layerOutputs[2]
  /\ runner.proof.layerCount = 3


\* order of fractions <<numerator, denominator>> with positive denominators
FracLess(a, b) == a[1] * b[2] < b[1] * a[2]

\* C19: across a successful execution of N >= 1 layers with a progress
\* callback installed, the callback is invoked exactly N times, the k-th time
\* after exactly k layers have run, with strictly increasing values in (0, 1],
\* the last of them exactly 1.
C19_ProgressPerLayer ==
  (/\ runner.phase \in {"proving", "done"}
   /\ runner.task.onProgress # "none"
   /\ TotalLayers(runner.task.shards) >= 1) =>
    LET N == TotalLayers(runner.task.shards)
        log == runner.progress
    IN  /\ Len(log) = N
        /\ \A k \in 1..Len(log) :
             /\ log[k].layersDone = k
             /\ FracLess(<<0, 1>>, log[k].value)
             /\ ~FracLess(<<1, 1>>, log[k].value)
             /\ k > 1 => FracLess(log[k - 1].value, log[k].value)
        /\ Len(log) >= 1 => log[Len(log)].value[1] = log[Len(log)].value[2]

C19_Witness ==
  /\ runner.phase = "done"
  /\ runner.via = "direct"
  /\ runner.task.onProgress = "own"
  /\ Len(runner.layerOutputs) = 3
  /\ Len(runner.own) = 3
  /\ runner.own[3] = <<3, 3>>


\* C20: when a shard task that carries its own onProgress callback is run
\* through PoUWCaptcha.execute(), that callback receives at least one update
\* and the last update it receives is 1.
C20_OwnCallbackUpdated ==
  (/\ runner.phase = "done"
   /\ runner.via = "execute"
   /\ runner.given = "own"
   /\ TotalLayers(runner.task.shards) >= 1) =>
    /\ Len(runner.own) >= 1
    /\ runner.own[Len(runner.own)][1] = runner.own[Len(runner.own)][2]


\* the observers that were called with state s, in the order of the calls
RECURSIVE CalledWith(_, _)
CalledWith(log, s) ==
  IF log = <<>> THEN <<>>
  ELSE (IF Head(log)[2] = s THEN <<Head(log)[1]>> ELSE <<>>)
         \o CalledWith(Tail(log), s)

\* C12: every change of a Session's state calls each registered observer
\* exactly once, inside the assignment and in subscription order, with the
\* new state, whether or not an observer throws; what observers throw stays
\* inside the setter; assigning the state the Session already has calls nobody.
C12_NotifiedOnce ==
  subject.assigned # "none" =>
    /\ \A s \in WidgetStates :
         CalledWith(subject.log, s) =
           IF \E i \in 1..Len(subject.changes) : subject.changes[i] = s
           THEN subject.registered ELSE <<>>
    /\ subject.before = subject.assigned => subject.log = <<>>
    /\ subject.caught =
         Cardinality({i \in 1..Len(subject.log) :
                        subject.behaviour[subject.log[i][1]] = "throws"})


\* C21: proof generation is deterministic: two generateProof runs with the
\* same taskId, sampleId, expectedLayers, layerOutputs and prediction, on the
\* same engine or on different ones and at any times, yield the same
\* proofHash, outputHashes and predictionHash; the proofs differ at most in
\* their timestamp.
C21_ProofDeterministic ==
  prover.phase = "on" =>
    \A i, j \in 1..Len(prover.runs) :
      prover.runs[i].in = prover.runs[j].in =>
        /\ prover.runs[i].proof.proofHash = prover.runs[j].proof.proofHash
        /\ prover.runs[i].proof.outputHashes = prover.runs[j].proof.outputHashes
        /\ prover.runs[i].proof.predictionHash = prover.runs[j].proof.predictionHash
        /\ [prover.runs[i].proof EXCEPT !.timestamp = 0] =
             [prover.runs[j].proof EXCEPT !.timestamp = 0]

C21_Witness ==
  /\ prover.phase = "on"
  /\ Len(prover.runs) = 2
  /\ prover.runs[1].in = prover.runs[2].in
  /\ prover.runs[1].engine # prover.runs[2].engine
  /\ prover.runs[1].proof.timestamp # prover.runs[2].proof.timestamp
  /\ Len(prover.runs[1].in.layerOutputs) = 2


\* some adjacent pair of layers of the shard does not chain
Mismatched(shard) ==
  \E i \in 2..Len(shard.layers) :
    shard.layers[i - 1].outputSize # shard.layers[i].inputSize

\* C22: a shard in which the trailing output dimension of some layer differs
\* from the trailing input dimension of the next fails validation before
\* execution: validateShard returns false for it and the Shard Runner executes
\* no layer of a task that contains it.
C22_MismatchNotExecuted ==
  tensorRun.phase # "none" =>
    \A i \in 1..Len(tensorRun.task.shards) :
      Mismatched(tensorRun.task.shards[i]) =>
        /\ ~validateShard(tensorRun.task.shards[i])
        /\ tensorRun.layerOutputs = <<>>
        /\ tensorRun.phase \in {"ready", "failed"}

\* the dense layers whose weights or biases do not fit their shapes
BadDense(layers) ==
  {i \in 1..Len(layers) :
     /\ layers[i].type = "dense"
     /\ \/ Len(layers[i].weights) # layers[i].inputSize * layers[i].outputSize
        \/ Len(layers[i].biases) # layers[i].outputSize}

\* C23: a dense layer whose weight length is not inputSize x outputSize or
\* whose bias length is not outputSize fails with ShapeMismatch: its forward
\* pass yields no output and the task containing it is aborted, without
\* prediction and without proof.
C23_DenseShapeMismatch ==
  (tensorRun.phase \notin {"none", "ready"} /\ BadDense(tensorRun.layers) # {}) =>
    /\ tensorRun.phase = "failed"
    /\ tensorRun.err = "ShapeMismatch"
    /\ \A i \in BadDense(tensorRun.layers) : Len(tensorRun.layerOutputs) < i
    /\ tensorRun.prediction = "none"
    /\ tensorRun.proof = "none"


\* the runtime that is not rt
OtherRuntime(rt) == IF rt = "tfjs" THEN "onnx" ELSE "tfjs"

\* C24: when loading with the selected runtime fails, loadModel retries
\* exactly once, with the other runtime, if that runtime is available, and
\* fails otherwise; when the fallback load fails too, loadModel fails.  One
\* loadModel call makes at most two attempts, never two with one runtime.
C24_OneFallback ==
  dispatcher.phase = "on" =>
    LET c == dispatcher.call
        a == c.attempts
        settled == c.pc \in {"resolved", "rejected"}
    IN  /\ Len(a) <= 2
        /\ Len(a) = 2 =>
             /\ a[1].result = "failed"
             /\ a[2].rt = OtherRuntime(a[1].rt)
             /\ a[2].id # a[1].id
             /\ Includes(dispatcher.availableRuntimes, a[2].rt)
        /\ (Len(a) >= 1 /\ a[1].result = "failed") =>
             IF Includes(dispatcher.availableRuntimes, OtherRuntime(a[1].rt))
             THEN Len(a) = 2
             ELSE Len(a) = 1 /\ c.pc = "rejected"
        /\ (Len(a) = 2 /\ a[2].result = "failed") => c.pc = "rejected"
        /\ c.pc = "resolved" => a[Len(a)].result = "ok"
        /\ (settled /\ Len(a) >= 1) => a[Len(a)].result # "pending"

C24_Witness ==
  /\ dispatcher.phase = "on"
  /\ dispatcher.call.pc = "rejected"
  /\ Len(dispatcher.call.attempts) = 2
  /\ dispatcher.call.attempts[1].result = "failed"
  /\ dispatcher.call.attempts[2].result = "failed"
  /\ dispatcher.call.attempts[1].rt = "onnx"

\* the runtime the priority rule names: the first available one among the
\* preferred runtime, onnx for a '.onnx' url, tfjs, onnx
Candidates(config) ==
  (IF config.preferredRuntime = "none" THEN <<>> ELSE <<config.preferredRuntime>>)
    \o (IF config.onnxUrl THEN <<"onnx">> ELSE <<>>)
    \o <<"tfjs", "onnx">>

\* C25: runtime selection follows strict priority: the preferred runtime if
\* available, else the one the file extension indicates if available, else
\* the first available of tfjs, onnx; with no runtime available the load
\* fails without attempting any runtime.
C25_SelectionPriority ==
  (dispatcher.phase = "on" /\ dispatcher.call.pc # "idle") =>
    LET cand  == Candidates(dispatcher.call.config)
        avail == {i \in 1..Len(cand) : Includes(dispatcher.availableRuntimes, cand[i])}
    IN  IF avail = {}
        THEN dispatcher.call.attempts = <<>> /\ dispatcher.call.pc = "rejected"
        ELSE /\ dispatcher.call.attempts # <<>>
             /\ dispatcher.call.attempts[1].rt =
                  cand[CHOOSE i \in avail : \A j \in avail : i <= j]

C25_Witness ==
  /\ dispatcher.phase = "on"
  /\ dispatcher.call.config = [preferredRuntime |-> "tfjs", onnxUrl |-> TRUE]
  /\ dispatcher.availableRuntimes = <<"tfjs", "onnx">>
  /\ dispatcher.call.attempts # <<>>
  /\ dispatcher.call.attempts[1].rt = "tfjs"


\* C26: one Dispatcher holds at most one loaded runtime/model at a time: at
\* most one of the TFJS and ONNX runtimes is held, whatever loadModel calls
\* came before, and a model that is loaded and not released is the current
\* one: loading a new model disposes the previous one.
C26_OneModelHeld ==
  dispatcher.phase = "on" =>
    /\ ~(dispatcher.tfjsRuntime # NULL /\ dispatcher.onnxRuntime # NULL)
    /\ \A id \in 1..Len(dispatcher.objects) :
         dispatcher.objects[id].model = "loaded" => dispatcher.currentModel = id

\* the runtime objects the engine references that hold a model
HeldModels(d) ==
  {id \in {d.currentModel, d.tfjsRuntime, d.onnxRuntime} \ {NULL} :
     d.objects[id].model = "loaded"}

\* C27: MLEngine.dispose() is idempotent and never fails: whenever it is
\* called, with or without a loaded model, before or after a failed load,
\* once or repeatedly, it leaves no current model, no runtimes and no shard
\* layers, and it releases each model the engine held exactly once.
C27_DisposeIdempotent ==
  [][(dispatcher.phase = "on" /\ dispatcher'.last = "dispose") =>
       /\ dispatcher'.currentModel = NULL
       /\ dispatcher'.tfjsRuntime = NULL
       /\ dispatcher'.onnxRuntime = NULL
       /\ dispatcher'.shardLayers = 0
       /\ \A id \in 1..Len(dispatcher.objects) :
            dispatcher'.objects[id].releases =
              dispatcher.objects[id].releases
                + (IF id \in HeldModels(dispatcher) THEN 1 ELSE 0)]_vars


\* the Dispatcher's model, runtimes and availability list stay as they are
EngineFrame ==
  /\ mlEngine'.currentModel = mlEngine.currentModel
  /\ mlEngine'.tfjsRuntime = mlEngine.tfjsRuntime
  /\ mlEngine'.onnxRuntime = mlEngine.onnxRuntime
  /\ mlEngine'.availableRuntimes = mlEngine.availableRuntimes
  /\ liveModels' = liveModels

\* C28: shard tasks are always serviced by the Shard Runner: a call whose
\* task has a shards field is in executeShardTask until it submits, never in
\* loadModel or predict, and has chosen no runtime; entering executeShardTask
\* and returning from it leave the Dispatcher's current model, runtimes and
\* availability list unchanged.
C28_ShardTasksUseRunner ==
  [][\A p \in Calls :
       /\ calls'[p].task = "shard" =>
            /\ calls'[p].pc = "awaitProof"
            /\ calls'[p].rt = "none"
       /\ (calls[p].pc = "awaitInit" /\ calls'[p].task = "shard") => EngineFrame
       /\ (calls[p].task = "shard" /\ calls'[p].pc = "awaitSubmit") => EngineFrame
       /\ calls'[p].task = "legacy" => calls'[p].pc # "awaitProof"]_vars

C28_Witness ==
  \E p \in Calls :
    /\ calls[p].task = "shard"
    /\ calls[p].pc = "awaitProof"
    /\ mlEngine.layers > 0
    /\ mlEngine.currentModel # <<>>

\* C29: within one execute() call at most one init request and at most one
\* proof/prediction submission are sent, the submission after the init has
\* succeeded; a failure of either propagates without retry: a call whose init
\* failed ends without a submission, a call whose submission failed ends with
\* that one submission, and no request is sent twice.
C29_NoAutomaticRetry ==
  [][\A p \in Calls :
       /\ calls'[p].inits <= 1
       /\ calls'[p].submits <= 1
       /\ calls'[p].submits > calls[p].submits =>
            /\ calls[p].inits = 1
            /\ calls[p].pc \in {"awaitPow", "awaitProof"}
            /\ calls'[p].pc = "awaitSubmit"
       /\ calls'[p].inits > calls[p].inits =>
            calls[p].pc = "idle" /\ calls'[p].pc = "awaitInit"
       /\ (calls[p].pc = "awaitInit" /\ calls'[p].pc = "rejected") =>
            calls'[p].submits = 0 /\ calls'[p].inits = 1
       /\ (calls[p].pc = "awaitSubmit" /\ calls'[p].pc = "rejected") =>
            calls'[p].submits = 1 /\ calls'[p].inits = 1
       /\ calls[p].pc = "rejected" => calls'[p].pc = "rejected"]_vars

C29_Witness ==
  \E p \in Calls :
    /\ calls[p].pc = "rejected"
    /\ calls[p].err = ApiError
    /\ calls[p].submits = 1
    /\ calls[p].inits = 1


\* the label the claim gives index m (from 0): the listed one, or class_<m>
\* beyond the list
ExpectedLabel(labels, m) ==
  IF m < Len(labels) THEN labels[m + 1] ELSE <<"class_", m>>

\* C30: for every non-empty score vector generatePrediction returns as label
\* the label of the first index that holds the greatest score; topK has
\* min(5, number of scores) entries in non-increasing order of score; its
\* first entry carries the returned label; an index beyond the label list is
\* labelled class_<index>.
C30_Prediction ==
  scorer.phase = "done" =>
    LET out == scorer.output
        n   == Len(out)
        pr  == scorer.prediction
    IN  /\ \E m \in 0..(n - 1) :
             /\ pr.label = ExpectedLabel(scorer.labels, m)
             /\ \A j \in 1..n : ~Greater(out[j], out[m + 1])
             /\ \A j \in 1..m : out[j] # out[m + 1]
        /\ Len(pr.topK) = (IF n < 5 THEN n ELSE 5)
        /\ \A i, j \in 1..Len(pr.topK) :
             i < j => ~Greater(pr.topK[j].confidence, pr.topK[i].confidence)
        /\ pr.topK[1].label = pr.label


\* C31: the result of a successful execute() carries the token the validator
\* issued for that challenge: the token of the verification response, with
\* verificationPerformed true, when the call went through the adjudication
\* wait, and the token of the submit response, with verificationPerformed
\* false, when it did not.
C31_ResultCarriesIssuedToken ==
  \A p \in Calls :
    JustResolved(p) =>
      /\ calls[p].verificationPerformed = Waited(p)
      /\ calls[p].result = (IF Waited(p) THEN "tokV" ELSE "tokS")


C33_ProbedBeforeLoad ==
  probing.phase = "on" =>
    \A i \in 1..Len(probing.selections) :
      LET sel == probing.selections[i]
          e   == [availableRuntimes |-> Probed(probing.browser)]
      IN  /\ sel.runtime = selectRuntime(e, sel.config)
          /\ sel.runtime = "none" => probing.browser = {}


\* lines 419-423 run in this step: submitVerification was answered, the
\* token stored, the success panel shown and onSuccess invoked
VerificationSucceeds ==
  /\ verifyInFlight' < verifyInFlight
  /\ widget'.panel = "success"

\* C34: onSuccess and the outcome of execute() agree: onSuccess is never
\* invoked on a verification response for a challenge whose execute() has
\* rejected (stated where no reset() has abandoned a challenge, so that the
\* Session at hand is the challenge's own), and when execute() resolves
\* onSuccess has been invoked exactly once for its challenge.
C34_SuccessAgrees ==
  [][\A p \in Calls :
       /\ (VerificationSucceeds /\ resets = 0 /\ session = p) =>
            calls[p].pc # "rejected"
       /\ (calls[p].pc # "resolved" /\ calls'[p].pc = "resolved") =>
            calls'[p].successes = 1]_vars


\* C35: a verification response is sent to the validator only while the
\* Session is in state verifying, and at most once per Session.
C35_OneSubmission ==
  verification.phase = "on" =>
    /\ Len(verification.requests) <= 1
    /\ \A i \in 1..Len(verification.requests) :
         verification.requests[i].state = "verifying"


\* C36: once reset() has abandoned a pending execute(), no later step of
\* that call invokes onSuccess or onError for it or changes the widget, and
\* a call that was waiting for adjudication ends rejected with 'Session was
\* disposed'.
C36_AbandonedIsSilent ==
  [][\A p \in Calls :
       (InFlight(calls[p]) /\ calls[p].abandoned) =>
         /\ calls'[p].reports = calls[p].reports
         /\ calls'[p].successes = calls[p].successes
         /\ calls'[p].pc # calls[p].pc => widget' = widget
         /\ (calls[p].pc = "waiting" /\ calls'[p].pc # "waiting") =>
              (calls'[p].pc = "rejected" /\ calls'[p].err = SessionDisposed)]_vars


\* C37: ApiClient.request fails with an ApiError only: with the HTTP status
\* after a non-2xx response, with status 0 and 'Request timeout' after the
\* abort timer fired, with status 0 after any other failure; and the abort
\* timer has been cleared when the call has settled.
C37_FailuresAreApiErrors ==
  request.phase = "settled" =>
    /\ ~request.timerArmed
    /\ request.outcome = "rejected" =>
         /\ request.error.cls = "ApiError"
         /\ request.error.status =
              (IF request.status # 0 /\ ~Ok(request.status)
               THEN request.status ELSE 0)
         /\ request.aborted => request.error.message = "Request timeout"
    /\ request.outcome = "resolved" => Ok(request.status)


\* C38: loadModel returns cached bytes only if the entry for url has the
\* requested checksum and is at most 7 days old, and fetches in every other
\* case; once a fetch has succeeded with the database open, the entry for
\* url holds the requested checksum and the fetched bytes, and the next
\* loadModel(url, checksum) is served from the cache without a fetch.
C38_CacheContract ==
  (loader.phase = "on" /\ loader.call.pc = "settled") =>
    LET c    == loader.call
        prev == loader.previous
        hit  == /\ c.cached # NoEntry
                /\ c.cached.checksum = c.checksum
                /\ c.cached.age <= CacheMaxAge
    IN  /\ c.source = "cache" => (hit /\ c.data = c.cached.data /\ ~c.fetched)
        /\ ~hit => c.fetched
        /\ c.saveWithDb =>
             loader.store[c.url] =
               [checksum |-> c.checksum, age |-> 0, data |-> c.data]
        /\ (/\ prev.saveWithDb
            /\ prev.url = c.url
            /\ prev.checksum = c.checksum) =>
             (c.source = "cache" /\ c.data = prev.data /\ ~c.fetched)


\* the layers of the shards one after the other, in the order given
RECURSIVE LayersInOrder(_)
LayersInOrder(shards) ==
  IF shards = <<>> THEN <<>>
  ELSE Head(shards).layers \o LayersInOrder(Tail(shards))

\* C39: shardModel returns shards numbered 0, 1, ... in order, each with
\* between 1 and maxLayersPerShard layers, which put one after the other are
\* the layer list; mergeShards over those shards in any order gives back the
\* layer list.
C39_ShardRoundTrip ==
  /\ sharder.phase \in {"sharded", "merged"} =>
       /\ \A i \in 1..Len(sharder.shards) :
            /\ sharder.shards[i].index = i - 1
            /\ Len(sharder.shards[i].layers) >= 1
            /\ Len(sharder.shards[i].layers) <= sharder.maxLayersPerShard
       /\ LayersInOrder(sharder.shards) = sharder.layers
  /\ sharder.phase = "merged" => sharder.merged = sharder.layers

\* a model cut into a full shard and a shorter last one, merged from the
\* shards in reverse order
C39_Witness ==
  /\ sharder.phase = "merged"
  /\ Len(sharder.layers) = 3
  /\ sharder.maxLayersPerShard = 2
  /\ Len(sharder.shards) = 2
  /\ sharder.handed[1].index = 1
  /\ sharder.merged = sharder.layers

====
